---- MODULE Spec2Model ----
(***************************************************************************)
(* LagLock: a coordinator (src/server) that keeps a smoothed round-trip    *)
(* estimate per participant and broadcasts a common playback timestamp,    *)
(* and the participant node (src/client) that answers its heartbeats.      *)
(*                                                                         *)
(* Specifications of this module                                           *)
(*   WindowSpec  ClientData::add_ping / update_smoothed_ping on one record *)
(*   NodeSpec    the node's message loop (client main): the Ping arm       *)
(*   NodeTextSpec  the Text arm of that loop and the background pinger     *)
(*   Spec        the coordinator: registry, receive and heartbeat threads, *)
(*               the two mutex levels and the broadcast engine             *)
(*   FairSpec    Spec with the fairness of the OS scheduler                *)
(*   ParseSpec   the coordinator's reading of one SEND_PLAY command        *)
(*   InvalidSpec a coordinator and a node that are sent invalid texts      *)
(*   CodecSpec   the Photon client's serializer and deserializer           *)
(*               (src/photon)                                              *)
(*   FrameSpec   serialize_operation_to_message on one request             *)
(*   RelaySpec   the Photon client's receive loop and its dispatcher       *)
(*   BufferSpec  calls on one StreamBuffer                                 *)
(*   PingerSpec  Pinger::start_ping on one socket                          *)
(*                                                                         *)
(* Integers: the code computes in u128.  Every input set below keeps the   *)
(* values far below 2^128, and every subtraction the code performs is      *)
(* modelled with its underflow outcome where an input can cause it.  The   *)
(* PLAY arm's cast of a u128 wait to u64 is modelled on (high, low) pairs  *)
(* of 64-bit halves.  The codec's u32 values are pairs of 16-bit halves.    *)
(***************************************************************************)
EXTENDS Integers, Sequences, FiniteSets, TLC

VARIABLES
    overflow_checks,   \* build profile: TRUE = debug (arithmetic overflow panics)
    \* ---- WindowSpec: one ClientData record and the wall clock
    w_now,             \* SystemTime::now() in ms
    w_history,         \* ClientData.ping_history, front first
    w_smoothed,        \* ClientData.smoothed_ping (None or a number)
    w_added,           \* history variable: every sample add_ping was given
    w_updated_at,      \* history variable: the clock read by the last update
    w_pending,         \* the (now, latency) the Pong handler computed, not yet added
    \* ---- NodeSpec: the node's message loop
    n_clock,           \* the node's SystemTime::now() in ms
    n_state,           \* "running" | "panicked"
    n_pings,           \* history variable: payloads of the Pings received
    n_pongs,           \* payloads of the Pongs handed to sender.send_message
    \* ---- NodeTextSpec: the Text arm of the node's loop and its region cache
    n_inbox,           \* the Text frames the coordinator sends, not yet received
    n_cache,           \* ping_data: the set of (region, latency, last_updated)
    n_sent,            \* the texts handed to sender.send_message
    n_sleep,           \* None, or the sleep of the PLAY arm the main thread is in
    n_played,          \* the renderer's invocations: payload and the clock then
    \* ---- Spec: the coordinator
    clock,             \* the coordinator's SystemTime::now() in ms
    conn,              \* per peer: state of its TCP/WebSocket transport
    inbox,             \* per peer: the frames its node sends, not yet read
    registry,          \* keys of the ClientsRegistry HashMap
    ping_history,      \* per peer: ClientData.ping_history
    smoothed_ping,     \* per peer: ClientData.smoothed_ping
    photon_pings,      \* per peer: ClientData.photon_pings
    waiting_for_photon_pings,  \* per peer: ClientData.waiting_for_photon_pings
    regLock,           \* the thread holding the registry mutex
    cliLock,           \* per peer: the thread holding its ClientData mutex
    writers,           \* per peer: the threads inside send_message on its transport
    pc,                \* per peer: where its receive thread stands
    r_out,             \* per peer: the write its receive thread is performing
    hb,                \* per peer: where its heartbeat thread stands
    h_out,             \* per peer: the Ping its heartbeat thread is writing
    bc,                \* per peer: locals of send_play_message_to_all /
                       \* request_photon_pings_from_all run by its receive thread
    \* ---- CodecSpec: the Photon client's serializer and deserializer
    c_input,           \* the value or parameter table handed to the serializer
    c_stream,          \* the StreamBuffer's bytes
    c_result,          \* None, or what the deserializer returned
    c_pos,             \* the stream's position: the index of the next byte to read
    c_error,           \* the message of the deserializer's panic, "" without one
    c_pc,              \* "start" | "written" | "read" | "panicked"
    \* ---- FrameSpec, RelaySpec, BufferSpec, PingerSpec: the other parts of
    \* the Photon client, one at a time
    photon             \* the record of the running part's state, named below

winVars == <<w_now, w_history, w_smoothed, w_added, w_updated_at, w_pending>>
nodeTextVars == <<n_inbox, n_cache, n_sent, n_sleep, n_played>>
nodeVars == <<n_clock, n_state, n_pings, n_pongs, nodeTextVars>>
recVars == <<ping_history, smoothed_ping, photon_pings, waiting_for_photon_pings>>
lockVars == <<regLock, cliLock, writers>>
threadVars == <<pc, r_out, hb, h_out, bc>>
netVars == <<conn, inbox>>
coordVars == <<clock, netVars, registry, recVars, lockVars, threadVars>>
codecVars == <<c_input, c_stream, c_result, c_pos, c_error, c_pc>>
photonVars == <<photon>>
vars == <<overflow_checks, winVars, nodeVars, coordVars, codecVars, photonVars>>

\* Option<T>: None is the empty sequence, Some(v) the one-element sequence
None == <<>>
Some(v) == <<v>>
\* Option::unwrap_or
unwrap_or(o, d) == IF o = None THEN d ELSE o[1]

(***************************************************************************)
(* Sequence helpers                                                        *)
(***************************************************************************)
RECURSIVE SumLatency(_)
\* ping_history.iter().map(|(_, latency)| latency).sum()
SumLatency(h) ==
    IF h = <<>> THEN 0 ELSE Head(h).latency + SumLatency(Tail(h))

(***************************************************************************)
(* ClientData: the heartbeat window (server/src/main.rs 49-89)             *)
(***************************************************************************)
\* the window length in ms
WINDOW_MS == 30000

RECURSIVE PopOldLe(_, _)
\* a trim that also drops the sample lying exactly on the window's edge
PopOldLe(h, thirty_seconds_ago) ==
    IF h # <<>> /\ Head(h).timestamp <= thirty_seconds_ago
    THEN PopOldLe(Tail(h), thirty_seconds_ago)
    ELSE h

RECURSIVE PopOld(_, _)
\* while let Some((timestamp, _)) = front() { if timestamp < t { pop_front } else { break } }
PopOld(h, thirty_seconds_ago) ==
    IF h # <<>> /\ Head(h).timestamp < thirty_seconds_ago
    THEN PopOld(Tail(h), thirty_seconds_ago)
    ELSE h

\* the smoothed ping of a trimmed history: Some(sum / len) or None
MeanOf(h) ==
    IF h # <<>> THEN Some(SumLatency(h) \div Len(h)) ELSE None

\* update_smoothed_ping: [history, smoothed] of the record after the call at clock `now`
update_smoothed_ping(h, now) ==
    LET kept == PopOld(h, now - WINDOW_MS)
    IN  [ping_history |-> kept, smoothed_ping |-> MeanOf(kept)]

\* add_ping(timestamp, latency): push_back, then update_smoothed_ping at clock `now`
add_ping(h, timestamp, latency, now) ==
    update_smoothed_ping(Append(h, [timestamp |-> timestamp, latency |-> latency]), now)

(***************************************************************************)
(* WindowSpec: samples are appended to one record while the clock advances *)
(***************************************************************************)
\* the clock is not advanced beyond StartClock + MaxAdvance by Tick actions
MaxAdvance == 40001
\* at most this many samples are appended
MaxSamples == 3

Latencies == {30, 100, 200}
ClockSteps == {10000, 30000, 30001}

\* first clock value of WindowSpec and NodeSpec
StartClock == 100000
\* first clock value of the coordinator
CoordStartClock == 998000

(***************************************************************************)
(* Coordinator: peers, threads, frames                                     *)
(***************************************************************************)
\* peer addresses (keys of the registry)
Addrs == {"A", "B"}

\* threads: per connection the receive thread (the connection's thread,
\* main.rs 230) and the heartbeat thread (main.rs 260)
RecvThread(p) == [kind |-> "recv", addr |-> p]
PingThread(p) == [kind |-> "ping", addr |-> p]
NoThread == [kind |-> "none", addr |-> "none"]

\* OwnedMessage; text is a sequence of tokens, data a sequence of bytes
Frame(type, text, data) == [type |-> type, text |-> text, data |-> data]
NoFrame == Frame("None", <<>>, <<>>)
TextFrame(text) == Frame("Text", text, <<>>)

\* locals of the broadcast engine on one receive thread
NoBroadcast ==
    [ kind |-> "none",                 \* "play": send_play_message_to_all,
                                       \* "forward": request_photon_pings_from_all alone
      target_region |-> <<>>,          \* target_region
      message |-> <<>>,                \* message
      todo |-> {},                     \* what the running for-loop has yet to visit
      start_time |-> 0,                \* start_time
      all_clients_responded |-> FALSE, \* all_clients_responded
      now |-> 0,                       \* now (main.rs 165)
      highest_rtt |-> 0,               \* highest_rtt
      play_message |-> <<>>,           \* play_message
      log |-> <<>>,                    \* history: the PLAY sends made, in order
      asked |-> {} ]                   \* history: the REQUEST_PING sends of the
                                       \* running for-loop

NoWrite == [to |-> "none", frame |-> NoFrame]

\* no connection has been accepted yet (main.rs 217-222)
CoordQuiet ==
    /\ clock = CoordStartClock
    /\ conn = [p \in Addrs |-> "none"]
    /\ registry = {}
    /\ ping_history = [p \in Addrs |-> <<>>]
    /\ smoothed_ping = [p \in Addrs |-> None]
    /\ photon_pings = [p \in Addrs |-> None]
    /\ waiting_for_photon_pings = [p \in Addrs |-> FALSE]
    /\ regLock = NoThread
    /\ cliLock = [p \in Addrs |-> NoThread]
    /\ writers = [p \in Addrs |-> <<>>]
    /\ pc = [p \in Addrs |-> "absent"]
    /\ r_out = [p \in Addrs |-> NoWrite]
    /\ hb = [p \in Addrs |-> "absent"]
    /\ h_out = [p \in Addrs |-> NoFrame]
    /\ bc = [p \in Addrs |-> NoBroadcast]

CoordIdle ==
    /\ CoordQuiet
    /\ inbox = [p \in Addrs |-> <<>>]

\* nothing has been handed to the serializer
\* the Photon client's other parts are not running
PhotonIdle == photon = <<>>

\* FrameSpec's state: serialize_operation_to_message
f_input == photon.f_input      \* the opcode, parameters and message type given
f_frame == photon.f_frame      \* None, or the frame it returned
\* RelaySpec's state: the receive loop
r_received == photon.r_received \* how many messages the loop has taken
r_last == photon.r_last        \* the last message taken and what its handler did
r_sent == photon.r_sent        \* the binary frames sent so far, in order
r_clock == photon.r_clock      \* millis_since_start()
r_pc == photon.r_pc            \* "running" | "panicked" | "disconnected"
\* BufferSpec's state: a StreamBuffer
sb == photon.sb                \* its fields: len, buf, pos
sb_log == photon.sb_log        \* the bytes written to it since it was made
sb_out == photon.sb_out        \* the last call made on it and what it returned
\* PingerSpec's state: Pinger::start_ping
pg_script == photon.pg_script  \* sample_size
pg_samples == photon.pg_samples \* the samples pushed so far
pg_pc == photon.pg_pc          \* "idle" | "probing" | "done" | "panicked"
pg_result == photon.pg_result  \* the mean returned, or the panic's message

CodecIdle ==
    /\ c_input = <<>>
    /\ c_stream = <<>>
    /\ c_result = <<>>
    /\ c_pos = 1
    /\ c_error = ""
    /\ c_pc = "start"

WindowIdle ==
    /\ w_now = StartClock
    /\ w_history = <<>>
    /\ w_smoothed = None
    /\ w_added = <<>>
    /\ w_updated_at = StartClock
    /\ w_pending = None

NodeQuiet ==
    /\ n_clock = StartClock
    /\ n_state = "running"
    /\ n_pings = <<>>
    /\ n_pongs = <<>>
    /\ n_cache = {}
    /\ n_sent = <<>>
    /\ n_sleep = <<>>
    /\ n_played = <<>>

NodeIdle ==
    /\ NodeQuiet
    /\ n_inbox = <<>>

WindowInit ==
    /\ overflow_checks \in BOOLEAN
    /\ CodecIdle
    /\ PhotonIdle
    /\ WindowIdle
    /\ NodeIdle
    /\ CoordIdle

\* the wall clock advances
WindowTick ==
    /\ \E d \in ClockSteps :
         /\ w_now + d <= StartClock + MaxAdvance
         /\ w_now' = w_now + d
    /\ UNCHANGED <<overflow_checks, codecVars, photonVars, w_history, w_smoothed, w_added, w_updated_at,
                   w_pending, nodeVars, coordVars>>

\* the Pong handler reads the clock and computes the latency (main.rs 470-476)
WindowPongRead ==
    /\ w_pending = None
    /\ Len(w_added) < MaxSamples
    /\ \E latency \in Latencies :
         w_pending' = Some([timestamp |-> w_now, latency |-> latency])
    /\ UNCHANGED <<overflow_checks, codecVars, photonVars, w_now, w_history, w_smoothed, w_added,
                   w_updated_at, nodeVars, coordVars>>

\* with the record locked: add_ping(now, latency), which reads the clock again
WindowAddPing ==
    /\ w_pending # None
    /\ LET s == w_pending[1]
           r == add_ping(w_history, s.timestamp, s.latency, w_now)
       IN  /\ w_history' = r.ping_history
           /\ w_smoothed' = r.smoothed_ping
           /\ w_added' = Append(w_added, s)
           /\ w_updated_at' = w_now
    /\ w_pending' = None
    /\ UNCHANGED <<overflow_checks, codecVars, photonVars, w_now, nodeVars, coordVars>>

WindowNext == WindowTick \/ WindowPongRead \/ WindowAddPing

WindowSpec == WindowInit /\ [][WindowNext]_vars

\* C8: after a sample is appended and the window updated at time T, the
\* history is exactly the appended samples observed at or after T - 30000, in
\* the order they were appended, and smoothed_ping is the integer mean of
\* their latencies, or None when no sample is left.
InWindow(s) == s.timestamp >= w_updated_at - 30000
C8_WindowIsTrailing30s ==
    LET kept == SelectSeq(w_added, InWindow)
    IN  /\ w_history = kept
        /\ IF kept = <<>>
           THEN w_smoothed = None
           ELSE /\ w_smoothed # None
                /\ w_smoothed[1] * Len(kept) <= SumLatency(kept)
                /\ SumLatency(kept) < (w_smoothed[1] + 1) * Len(kept)

\* C8 witness: the scenario of the specification (RTT 200 at 100000, 100 at
\* 110000, 30 at 140000): the first sample has left the window, mean of 100 and 30
C8_Witness ==
    /\ w_added = << [timestamp |-> 100000, latency |-> 200],
                    [timestamp |-> 110000, latency |-> 100],
                    [timestamp |-> 140000, latency |-> 30] >>
    /\ w_updated_at = 140000
    /\ w_history = << [timestamp |-> 110000, latency |-> 100],
                      [timestamp |-> 140000, latency |-> 30] >>
    /\ w_smoothed = Some(65)

(***************************************************************************)
(* Byte strings: u128::to_be_bytes / from_be_bytes                         *)
(***************************************************************************)
RECURSIVE be_bytes(_, _)
\* the k low-order bytes of n, most significant first
be_bytes(n, k) ==
    IF k = 0 THEN <<>> ELSE Append(be_bytes(n \div 256, k - 1), n % 256)

\* u128::to_be_bytes
to_be_bytes(n) == be_bytes(n, 16)

RECURSIVE from_be_bytes(_)
\* u128::from_be_bytes
from_be_bytes(b) ==
    IF b = <<>> THEN 0
    ELSE from_be_bytes(SubSeq(b, 1, Len(b) - 1)) * 256 + b[Len(b)]

\* the heartbeat payload: vec![timestamp_bytes, cur_ping_bytes].concat()
PingPayload(now, cur_ping) == to_be_bytes(now) \o to_be_bytes(cur_ping)

(***************************************************************************)
(* NodeSpec: the node's message loop (client/src/main.rs 129-212)          *)
(***************************************************************************)
\* at most this many Pings are delivered to the node
MaxNodePings == 3

\* the node's clock advances at most this many times
MaxNodeTicks == 2
NodeClockStep == 1000
\* the coordinator's clock as seen from the node: behind, equal or ahead
CoordinatorClocks == {n_clock - 40, n_clock, n_clock + 5}
AdvertisedRtts == {0, 50}
\* Ping payloads: empty, short, the 32-byte heartbeat and an over-long one
NodePingPayloads ==
    {<<>>, <<1, 2, 3>>}
      \cup {PingPayload(t, r) : t \in CoordinatorClocks, r \in AdvertisedRtts}
      \cup {PingPayload(n_clock, 0) \o <<255>>}

NodeInit ==
    /\ overflow_checks \in BOOLEAN
    /\ CodecIdle
    /\ PhotonIdle
    /\ WindowIdle
    /\ NodeIdle
    /\ CoordIdle

NodeTick ==
    /\ n_clock + NodeClockStep <= StartClock + MaxNodeTicks * NodeClockStep
    /\ n_clock' = n_clock + NodeClockStep
    /\ UNCHANGED <<overflow_checks, codecVars, photonVars, winVars, coordVars, n_state, n_pings, n_pongs,
                   nodeTextVars>>

\* the u128 subtraction current_timestamp - sent_timestamp overflows
SubOverflows(a, b) == a < b

\* OwnedMessage::Ping(ping) arm of the loop (main.rs 132-152)
NodeOnPing ==
    /\ n_state = "running"
    /\ Len(n_pings) < MaxNodePings
    /\ \E ping \in NodePingPayloads :
         /\ n_pings' = Append(n_pings, ping)
         /\ IF /\ Len(ping) = 32
               /\ SubOverflows(n_clock, from_be_bytes(SubSeq(ping, 1, 16)))
               /\ overflow_checks
            THEN \* attempt to subtract with overflow: the main thread panics
                 /\ n_state' = "panicked"
                 /\ n_pongs' = n_pongs
            ELSE \* sender.send_message(&OwnedMessage::Pong(ping))
                 /\ n_state' = n_state
                 /\ n_pongs' = Append(n_pongs, ping)
    /\ UNCHANGED <<overflow_checks, codecVars, photonVars, winVars, coordVars, n_clock, nodeTextVars>>

NodeNext == NodeTick \/ NodeOnPing

NodeSpec == NodeInit /\ [][NodeNext]_vars

\* C10: for every Ping the node receives it sends exactly one Pong with the
\* same payload: the Pong payloads sent are the Ping payloads received, in order.
C10_EveryPingIsPonged == n_pongs = n_pings

(***************************************************************************)
(* Text: a String is a sequence of tokens; ":" is a token of its own, a    *)
(* decimal number is one token                                             *)
(***************************************************************************)
Str(word) == [s |-> word, n |-> 0]
\* format!("{}", n) of an integer
Num(v) == [s |-> "#", n |-> v]
Colon == Str(":")

\* str::starts_with
starts_with(text, prefix) ==
    /\ Len(text) >= Len(prefix)
    /\ SubSeq(text, 1, Len(prefix)) = prefix

RECURSIVE trim_start_matches(_, _)
\* str::trim_start_matches: strips the prefix as often as it occurs
trim_start_matches(text, prefix) ==
    IF prefix # <<>> /\ starts_with(text, prefix)
    THEN trim_start_matches(SubSeq(text, Len(prefix) + 1, Len(text)), prefix)
    ELSE text

\* the index of the first ':' of text, 0 when there is none
FirstColon(text) ==
    IF \E i \in 1..Len(text) : text[i] = Colon
    THEN CHOOSE i \in 1..Len(text) :
            /\ text[i] = Colon
            /\ \A j \in 1..(i - 1) : text[j] # Colon
    ELSE 0

\* text.splitn(2, ':').collect(): one part, or the parts before and after the first ':'
splitn2(text) ==
    LET i == FirstColon(text)
    IN  IF i = 0 THEN <<text>>
        ELSE <<SubSeq(text, 1, i - 1), SubSeq(text, i + 1, Len(text))>>

\* const DEFAULT_TARGET_REGION: &str = "us"
DEFAULT_TARGET_REGION == <<Str("us")>>

SEND_PLAY_PREFIX == <<Str("SEND_PLAY"), Colon>>
REQUEST_PING_PREFIX == <<Str("REQUEST_PING"), Colon>>
PHOTON_PINGS_PREFIX == <<Str("PHOTON_PINGS"), Colon>>

\* (target_region, message_content) of a SEND_PLAY text (main.rs 377-385)
ParseSendPlay(text) ==
    LET parts == splitn2(trim_start_matches(text, SEND_PLAY_PREFIX))
    IN  IF Len(parts) > 1
        THEN [target_region |-> parts[1], message |-> parts[2]]
        ELSE [target_region |-> DEFAULT_TARGET_REGION, message |-> parts[1]]

\* target_region of a REQUEST_PING text (main.rs 400-405)
ParseRequestPing(text) ==
    LET parts == splitn2(text)
    IN  IF Len(parts) > 1 /\ parts[2] # <<>> THEN parts[2] ELSE DEFAULT_TARGET_REGION

\* RegionPingInfo (last_updated is stored and never read by the coordinator)
RegionPing(region, latency) == [region |-> <<Str(region)>>, latency |-> latency]

\* serde_json::from_str::<PhotonPingsResponse>: the JSON documents of the model
from_str(json_content) ==
    CASE json_content = <<Str("[us:50,eu:90,us:80]")>> ->
            [ok |-> TRUE,
             regions |-> <<RegionPing("us", 50), RegionPing("eu", 90), RegionPing("us", 80)>>]
      [] json_content = <<Str("[us:50]")>> ->
            [ok |-> TRUE, regions |-> <<RegionPing("us", 50)>>]
      [] json_content = <<Str("[]")>> ->
            [ok |-> TRUE, regions |-> <<>>]
      [] json_content = <<Str("[eu:90]")>> ->
            [ok |-> TRUE, regions |-> <<RegionPing("eu", 90)>>]
      [] json_content = <<Str("[us:50,eu:90]")>> ->
            [ok |-> TRUE, regions |-> <<RegionPing("us", 50), RegionPing("eu", 90)>>]
      [] OTHER -> [ok |-> FALSE, regions |-> <<>>]

\* a request that names no region
RequestPingTextNoRegion(target_region) == REQUEST_PING_PREFIX

\* format!("REQUEST_PING:{}", target_region)
RequestPingText(target_region) == REQUEST_PING_PREFIX \o target_region

\* format!("PLAY:{}:{}:{}", future_timestamp, message, highest_rtt)
PlayText(future_timestamp, message, highest_rtt) ==
    <<Str("PLAY"), Colon, Num(future_timestamp), Colon>> \o message
        \o <<Colon, Num(highest_rtt)>>

\* format!("Play message '{}' sent to all clients", message_content)
ConfirmText(message) ==
    <<Str("Play message '")>> \o message \o <<Str("' sent to all clients")>>

\* "Photon ping data received"
AckText == <<Str("Photon ping data received")>>

\* format!("Echo: {}", text)
EchoText(text) == <<Str("Echo: ")>> \o text

(***************************************************************************)
(* get_highest_rtt (main.rs 99-125)                                        *)
(***************************************************************************)
\* a filter that lets every region through
RegionMatchesAny(ping_info, target_region) == TRUE

\* if ping_info.region == target_region
RegionMatches(ping_info, target_region) == ping_info.region = target_region

Max2(a, b) == IF a >= b THEN a ELSE b

RECURSIVE ScanPhotonPings(_, _, _)
\* for ping_info in photon_pings { ... highest_photon_ping.max(latency) }
ScanPhotonPings(pings, target_region, highest_photon_ping) ==
    IF pings = <<>> THEN highest_photon_ping
    ELSE ScanPhotonPings(Tail(pings), target_region,
            IF RegionMatches(Head(pings), target_region)
            THEN Max2(highest_photon_ping, Head(pings).latency)
            ELSE highest_photon_ping)

RECURSIVE ScanClients(_, _, _, _)
\* for (_, client_data) in locked_clients.iter(): the two running maxima
ScanClients(todo, target_region, highest_server_ping, highest_photon_ping) ==
    IF todo = {} THEN highest_server_ping + highest_photon_ping
    ELSE LET q == CHOOSE x \in todo : TRUE
         IN  ScanClients(todo \ {q}, target_region,
                IF smoothed_ping[q] # None
                THEN Max2(highest_server_ping, smoothed_ping[q][1])
                ELSE highest_server_ping,
                IF photon_pings[q] # None
                THEN ScanPhotonPings(photon_pings[q][1], target_region, highest_photon_ping)
                ELSE highest_photon_ping)

get_highest_rtt(target_region) == ScanClients(registry, target_region, 0, 0)

\* a buffer of 1.5 computed as highest_rtt * (3 / 2)
FutureTimestampNoBuffer(now, highest_rtt) == now + highest_rtt * (3 \div 2)

\* let future_timestamp = now + (highest_rtt * 3 / 2)
FutureTimestamp(now, highest_rtt) == now + ((highest_rtt * 3) \div 2)

(***************************************************************************)
(* NodeTextSpec: the Text arm of the node's loop (client/src/main.rs       *)
(* 154-206), get_ping_data_json and the background pinger                  *)
(***************************************************************************)
\* A u128 is the pair of its 64-bit halves: hi * 2^64 + lo.  A clock reading
\* has hi = 0; a sum or difference below is taken only where no carry or
\* borrow between the halves arises.
U128(hi, lo) == [hi |-> hi, lo |-> lo]
\* a > b in u128
U128Gt(a, b) == a.hi > b.hi \/ (a.hi = b.hi /\ a.lo > b.lo)
\* a - b in u128, for a > b and a.lo >= b.lo
U128Sub(a, b) == U128(a.hi - b.hi, a.lo - b.lo)
\* a cast that keeps the whole u128, were Duration::from_millis to take one
AsU64Wide(x) == x
\* `x as u64`: the low 64 bits
AsU64(x) == U128(0, x.lo)

\* the decimal numeral of 2^64 + v
BigNum(v) == [s |-> "#+2^64", n |-> v]

PLAY_PREFIX == <<Str("PLAY"), Colon>>

\* text.splitn(3, ':')
splitn3(text) ==
    LET first == splitn2(text)
    IN  IF Len(first) = 1 THEN first ELSE <<first[1]>> \o splitn2(first[2])

\* str::parse::<u128>, reading every numeral as 0
parse_u128_lenient(field) ==
    IF Len(field) = 1 /\ field[1].s = "#+2^64"
    THEN [ok |-> TRUE, value |-> U128(1, field[1].n)]
    ELSE [ok |-> TRUE, value |-> U128(0, IF Len(field) = 1 THEN field[1].n ELSE 0)]

\* str::parse::<u128>: Ok for a decimal numeral, Err for anything else
parse_u128(field) ==
    IF Len(field) = 1 /\ field[1].s = "#" /\ field[1].n >= 0
    THEN [ok |-> TRUE, value |-> U128(0, field[1].n)]
    ELSE IF Len(field) = 1 /\ field[1].s = "#+2^64"
    THEN [ok |-> TRUE, value |-> U128(1, field[1].n)]
    ELSE [ok |-> FALSE, value |-> U128(0, 0)]

\* RegionPingInfo of the node
RegionPingInfo(region, latency, last_updated) ==
    [region |-> region, latency |-> latency, last_updated |-> last_updated]

\* serde_json::to_string(&PhotonPingsResponse { regions })
to_string(regions) == [s |-> "json", n |-> 0, regions |-> regions]

\* the enumerations of a finite set, each element once
Orderings(S) ==
    {f \in [1..Cardinality(S) -> S] : \A i, j \in DOMAIN f : i # j => f[i] # f[j]}

\* a filter that lets every region through
IncludesRegionAlways(region, target_region) == TRUE

\* if target_region.is_empty() || region == target_region
IncludesRegion(region, target_region) ==
    target_region = <<>> \/ region = target_region

\* get_ping_data_json: the texts it may return, one per iteration order of
\* the HashMap
get_ping_data_json(ping_data, target_region) ==
    {PHOTON_PINGS_PREFIX \o <<to_string(regions)>> :
        regions \in Orderings({e \in ping_data : IncludesRegion(e.region, target_region)})}

\* the regions fetch_regions_once returned, and what a ping cycle measures
Regions == {<<Str("us")>>, <<Str("eu")>>}
PingLatencies == {20, 35}
\* a node runs at most this many ping cycles
MaxPingCycles == 2

NodeTextMaxClock == StartClock + MaxNodeTicks * NodeClockStep

\* what the coordinator sends to the node, in order: a run follows one of these
NodeScripts ==
    { <<PlayText(StartClock + 1500, <<Str("demo")>>, 140),
        PlayText(StartClock - 10, <<Str("old")>>, 0)>>,
      <<PlayText(StartClock + 1000, <<Str("a"), Colon, Str("b")>>, 7)>>,
      <<PLAY_PREFIX \o <<BigNum(NodeTextMaxClock), Colon, Str("far"), Colon, Num(0)>>>>,
      <<PLAY_PREFIX \o <<Num(StartClock + 1000)>>,
        PLAY_PREFIX \o <<Str("soon"), Colon, Str("demo"), Colon, Num(0)>>,
        PLAY_PREFIX,
        PLAY_PREFIX \o <<Num(StartClock), Colon, Str("next")>>>>,
      <<REQUEST_PING_PREFIX \o <<Str("us")>>, REQUEST_PING_PREFIX,
        REQUEST_PING_PREFIX \o <<Str("asia")>>>>,
      <<<<Str("hello")>>, REQUEST_PING_PREFIX \o <<Str("eu")>>>> }

NodeTextInit ==
    /\ overflow_checks = FALSE
    /\ CodecIdle
    /\ PhotonIdle
    /\ WindowIdle
    /\ NodeQuiet
    /\ n_inbox \in NodeScripts
    /\ CoordIdle

nodePingVars == <<n_pings, n_pongs>>

\* the main thread takes the next message off receiver.incoming_messages():
\* a text with the given prefix, or, for the empty prefix, with none of them
NodeTakes(prefix) ==
    /\ n_state = "running"
    /\ n_sleep = None
    /\ n_inbox # <<>>
    /\ IF prefix # <<>>
       THEN starts_with(Head(n_inbox), prefix)
       ELSE /\ ~starts_with(Head(n_inbox), PLAY_PREFIX)
            /\ ~starts_with(Head(n_inbox), REQUEST_PING_PREFIX)
    /\ n_inbox' = Tail(n_inbox)

\* println!("PLAYING ...: {}", message_content): the renderer is invoked
Render(message_content, target_timestamp, received_at) ==
    n_played' = Append(n_played,
        [payload |-> message_content, at |-> n_clock,
         target |-> target_timestamp, received_at |-> received_at])

\* text.starts_with("PLAY:") (main.rs 157-192)
NodeOnPlay ==
    /\ NodeTakes(PLAY_PREFIX)
    /\ LET parts == splitn3(Head(n_inbox))
           parsed == IF Len(parts) >= 3 THEN parse_u128(parts[2])
                     ELSE [ok |-> FALSE, value |-> U128(0, 0)]
           now == U128(0, n_clock)
       IN  IF Len(parts) >= 3 /\ parsed.ok
           THEN IF U128Gt(parsed.value, now)
                THEN \* thread::sleep(Duration::from_millis(wait_time as u64))
                     /\ n_sleep' = Some([until |-> n_clock + AsU64(U128Sub(parsed.value, now)).lo,
                                         payload |-> parts[3],
                                         target |-> parsed.value,
                                         received_at |-> n_clock])
                     /\ UNCHANGED n_played
                ELSE /\ Render(parts[3], parsed.value, n_clock)
                     /\ UNCHANGED n_sleep
           ELSE \* "Invalid play message format" / "Invalid timestamp format"
                UNCHANGED <<n_sleep, n_played>>
    /\ UNCHANGED <<overflow_checks, codecVars, photonVars, winVars, coordVars, n_clock, n_state, nodePingVars,
                   n_cache, n_sent>>

\* thread::sleep returns once the duration has passed: "PLAYING NOW"
NodeWake ==
    /\ n_state = "running"
    /\ n_sleep # None
    /\ n_clock >= n_sleep[1].until
    /\ Render(n_sleep[1].payload, n_sleep[1].target, n_sleep[1].received_at)
    /\ n_sleep' = None
    /\ UNCHANGED <<overflow_checks, codecVars, photonVars, winVars, coordVars, n_clock, n_state, nodePingVars,
                   n_inbox, n_cache, n_sent>>

\* text.starts_with("REQUEST_PING:") (main.rs 193-205): reply with the cache
NodeOnRequestPing ==
    /\ NodeTakes(REQUEST_PING_PREFIX)
    /\ LET parts == splitn2(Head(n_inbox))
           target_region == IF Len(parts) > 1 /\ parts[2] # <<>> THEN parts[2] ELSE <<>>
       IN  \E json_data \in get_ping_data_json(n_cache, target_region) :
               n_sent' = Append(n_sent, json_data)
    /\ UNCHANGED <<overflow_checks, codecVars, photonVars, winVars, coordVars, n_clock, n_state, nodePingVars,
                   n_cache, n_sleep, n_played>>

\* any other text is only printed
NodeOnOtherText ==
    /\ NodeTakes(<<>>)
    /\ UNCHANGED <<overflow_checks, codecVars, photonVars, winVars, coordVars, n_clock, n_state, nodePingVars,
                   n_cache, n_sent, n_sleep, n_played>>

\* data.insert(region_name, (latency, now)): the key's entry is replaced
Insert(ping_data, region, latency, now) ==
    {e \in ping_data : e.region # region} \cup {RegionPingInfo(region, latency, now)}

RECURSIVE InsertAll(_, _, _)
\* for (region, latency) in ping_results { data.insert(...) }
InsertAll(ping_data, ping_results, now) ==
    IF ping_results = <<>> THEN ping_data
    ELSE InsertAll(Insert(ping_data, Head(ping_results).region, Head(ping_results).latency, now),
                   Tail(ping_results), now)

\* what one ping cycle may return: a probe whose task panicked is left out
PingResults ==
    { <<[region |-> <<Str("us")>>, latency |-> 20], [region |-> <<Str("eu")>>, latency |-> 35]>>,
      <<[region |-> <<Str("us")>>, latency |-> 35]>>,
      <<[region |-> <<Str("eu")>>, latency |-> 20]>> }

\* how many ping cycles have written the cache so far
PingCyclesDone == Cardinality({e.last_updated : e \in n_cache})

\* one cycle of the background pinger writes its results under the cache's
\* mutex, all with the same `now` (background_pinger.rs 19-32); the next cycle
\* runs at a later reading of the clock
NodePingCycle ==
    /\ \A e \in n_cache : e.last_updated < n_clock
    /\ PingCyclesDone < MaxPingCycles
    /\ \E ping_results \in PingResults :
         n_cache' = InsertAll(n_cache, ping_results, n_clock)
    /\ UNCHANGED <<overflow_checks, codecVars, photonVars, winVars, coordVars, n_clock, n_state, nodePingVars,
                   n_inbox, n_sent, n_sleep, n_played>>

NodeTextNext ==
    \/ NodeTick \/ NodeOnPlay \/ NodeWake \/ NodeOnRequestPing \/ NodeOnOtherText
    \/ NodePingCycle

NodeTextSpec == NodeTextInit /\ [][NodeTextNext]_vars

Last(seq) == seq[Len(seq)]

\* C11: the renderer is not invoked for a PLAY before the node's clock has
\* reached its target_ts when that lay ahead on receipt, and is invoked at
\* once, without waiting, when it did not.
C11_RenderNotBeforeTarget ==
    \A i \in DOMAIN n_played :
        LET e == n_played[i]
        IN  IF U128Gt(e.target, U128(0, e.received_at))
            THEN ~U128Gt(e.target, U128(0, e.at))
            ELSE e.at = e.received_at

\* the PLAY texts the coordinator can emit that the node is sent
EmittedTimestamps == {StartClock - 10, StartClock + 1000, StartClock + 1500}
EmittedPayloads == {<<Str("demo")>>, <<Str("old")>>, <<Str("a"), Colon, Str("b")>>}
EmittedRtts == {0, 7, 140}

\* the payload the PLAY arm has just taken: the one it renders at once, or the
\* one it will render after its sleep
PayloadTaken == IF n_sleep' # None THEN n_sleep'[1].payload ELSE Last(n_played').payload

\* C12: on PLAY:<target_ts>:<payload>:<rtt> as the coordinator emits it, the
\* payload given to the renderer is <payload>, without the trailing rtt field.
C12_RenderedPayloadIsPayload ==
    [][\A ts \in EmittedTimestamps, m \in EmittedPayloads, H \in EmittedRtts :
          (n_inbox # <<>> /\ Head(n_inbox) = PlayText(ts, m, H) /\ NodeOnPlay)
              => PayloadTaken = m]_vars

\* the region a REQUEST_PING text names (empty when it names none)
RequestedRegion(text) == SubSeq(text, Len(REQUEST_PING_PREFIX) + 1, Len(text))

\* C13: on REQUEST_PING:<region> with a nonempty region the node probes the
\* region, writes the fresh result into the cache and replies with one entry,
\* for that region, measured now.
C13_RequestProbesRegion ==
    [][(NodeOnRequestPing /\ RequestedRegion(Head(n_inbox)) # <<>>) =>
          \E e \in n_cache' :
              /\ e.region = RequestedRegion(Head(n_inbox))
              /\ e.last_updated = n_clock
              /\ Last(n_sent') = PHOTON_PINGS_PREFIX \o <<to_string(<<e>>)>>]_vars

\* the entries of a reply text
ReplyEntries(text) == {Last(text).regions[i] : i \in DOMAIN Last(text).regions}

\* C14: the snapshot sent for an empty target holds one entry for every
\* region in the cache; for a nonempty target it holds the cache's entry for
\* that region and nothing else, or nothing when the region is not cached;
\* every entry is a (latency, updated-at) pair as the pinger wrote it.
C14_SnapshotMatchesCache ==
    [][NodeOnRequestPing =>
          LET target == RequestedRegion(Head(n_inbox))
              reply == Last(n_sent')
              expected == IF target = <<>> THEN n_cache
                          ELSE {e \in n_cache : e.region = target}
          IN  /\ Len(reply) = Len(PHOTON_PINGS_PREFIX) + 1
              /\ SubSeq(reply, 1, Len(PHOTON_PINGS_PREFIX)) = PHOTON_PINGS_PREFIX
              /\ ReplyEntries(reply) = expected
              /\ Len(Last(reply).regions) = Cardinality(expected)
              /\ \A e \in ReplyEntries(reply) :
                    \E r \in PingResults : \E i \in DOMAIN r :
                        r[i].region = e.region /\ r[i].latency = e.latency]_vars

\* C14 happens: with two regions cached the node has answered a request for
\* one of them with one entry, a request without region with both, and a
\* request for a region that is not cached with none
C14_Witness ==
    /\ Len(n_sent) = 3
    /\ Cardinality({e.region : e \in n_cache}) = 2
    /\ Len(Last(n_sent[1]).regions) = 1
    /\ Last(n_sent[1]).regions[1].region = <<Str("us")>>
    /\ Len(Last(n_sent[2]).regions) = 2
    /\ Last(n_sent[3]).regions = <<>>

(***************************************************************************)
(* Spec: the coordinator (server/src/main.rs 215-498)                      *)
(*                                                                         *)
(* A frame of a node enters the model when the receive thread reads it:    *)
(* the action of a handler draws the frame it handles.                     *)
(***************************************************************************)
\* let max_wait_time = Duration::from_secs(2)
MAX_WAIT_MS == 2000
\* thread::sleep(Duration::from_millis(50))
POLL_MS == 50
\* thread::sleep returns after at least the duration asked for: the scheduler
\* wakes a sleeping broadcast this many ms late
Oversleep == 950

otherVars == <<overflow_checks, codecVars, photonVars, winVars, nodeVars>>

\* the echo of a heartbeat that left the coordinator r ms before the model starts
PongOf(r) == Frame("Pong", <<>>, PingPayload(CoordStartClock - r, 0))

PhotonPingsFrame(json) == TextFrame(PHOTON_PINGS_PREFIX \o <<Str(json)>>)
SendPlayFrame(rest) == TextFrame(SEND_PLAY_PREFIX \o rest)
RequestPingFrame(rest) == TextFrame(REQUEST_PING_PREFIX \o rest)
CloseFrame == Frame("Close", <<>>, <<>>)

\* what the two nodes send over the life of their connections, in order: a
\* run of the model follows one of these
Scenarios ==
    { [A |-> <<PongOf(40), PhotonPingsFrame("[us:50,eu:90,us:80]")>>,
       B |-> <<PongOf(60), SendPlayFrame(<<Str("demo")>>)>>],
      [A |-> <<SendPlayFrame(<<Str("eu"), Colon, Str("demo")>>)>>,
       B |-> <<PhotonPingsFrame("[us:50,eu:90,us:80]"), CloseFrame>>],
      [A |-> <<RequestPingFrame(<<Str("eu")>>), CloseFrame>>,
       B |-> <<Frame("Ping", <<>>, <<7>>), Frame("Binary", <<>>, <<1, 2>>),
               TextFrame(<<Str("hello")>>)>>],
      [A |-> <<Frame("Pong", <<>>, <<1, 2>>), RequestPingFrame(<<>>)>>,
       B |-> <<PhotonPingsFrame("not json"), PhotonPingsFrame("[us:50]"), CloseFrame>>] }

IsSendPlay(text) == starts_with(text, SEND_PLAY_PREFIX)
IsRequestPing(text) == ~IsSendPlay(text) /\ starts_with(text, REQUEST_PING_PREFIX)
IsPhotonPings(text) ==
    ~IsSendPlay(text) /\ ~IsRequestPing(text) /\ starts_with(text, PHOTON_PINGS_PREFIX)
IsOtherText(text) == ~IsSendPlay(text) /\ ~IsRequestPing(text) /\ ~IsPhotonPings(text)

CoordInit ==
    /\ overflow_checks = FALSE
    /\ CodecIdle
    /\ PhotonIdle
    /\ WindowIdle
    /\ NodeIdle
    /\ CoordQuiet
    /\ inbox \in Scenarios

(* ---- the two mutex levels and the transport writes ---- *)

\* a lock() that never waits for the holder
CanLockAlways(q) == TRUE

\* client_data.lock(): granted when no thread holds the record's mutex
CanLock(q) == cliLock[q] = NoThread

\* clients.lock(): granted when no thread holds the registry mutex
CanLockRegistry == regLock = NoThread

\* Client::send_message returns Ok
SendOk(q) == conn[q] = "open"

RemoveThread(seq, t) == SelectSeq(seq, LAMBDA x : x # t)

\* thread t, having locked q's record, enters send_message on q's transport
BeginWrite(t, q) ==
    /\ cliLock' = [cliLock EXCEPT ![q] = t]
    /\ writers' = [writers EXCEPT ![q] = Append(@, t)]

\* send_message returns and the guard of q's record outlives the statement
EndWriteKeepGuard(t, q) ==
    /\ cliLock' = cliLock
    /\ writers' = [writers EXCEPT ![q] = RemoveThread(@, t)]

\* send_message returns and the guard of q's record is dropped
EndWrite(t, q) ==
    /\ cliLock' = [cliLock EXCEPT ![q] = NoThread]
    /\ writers' = [writers EXCEPT ![q] = RemoveThread(@, t)]

(* ---- the environment: the network ---- *)

\* a connection is accepted, its record inserted, its two threads started
\* (main.rs 230-260)
Accept(p) ==
    /\ conn[p] = "none"
    /\ pc[p] = "absent"
    /\ CanLockRegistry
    /\ conn' = [conn EXCEPT ![p] = "open"]
    /\ registry' = registry \cup {p}
    /\ pc' = [pc EXCEPT ![p] = "loop"]
    /\ hb' = [hb EXCEPT ![p] = "sleep"]
    /\ UNCHANGED <<otherVars, clock, inbox, recVars, lockVars, r_out, h_out, bc>>

\* p's connection dies: reads fail with an I/O error ("ioerr") or the stream
\* ends without a Close frame ("eof")
LinkFails(p) ==
    /\ conn[p] = "open"
    /\ \E how \in {"ioerr", "eof"} : conn' = [conn EXCEPT ![p] = how]
    /\ UNCHANGED <<otherVars, clock, inbox, registry, recVars, lockVars, threadVars>>

(* ---- the heartbeat thread (main.rs 260-293) ---- *)

\* lock the record, read the clock and smoothed_ping, enter send_message
\* (main.rs 266-283)
HbSend(p) ==
    /\ CanLock(p)
    /\ h_out' = [h_out EXCEPT ![p] =
            Frame("Ping", <<>>, PingPayload(clock, unwrap_or(smoothed_ping[p], 0)))]
    /\ BeginWrite(PingThread(p), p)
    /\ hb' = [hb EXCEPT ![p] = "write"]
    /\ UNCHANGED <<otherVars, clock, netVars, registry, recVars, regLock, pc, r_out, bc>>

HbBegin(p) ==
    /\ hb[p] = "sleep"
    /\ HbSend(p)

\* what the heartbeat loop does when send_message returned ok or not:
\* Ok continues the loop, Err breaks out of it
HbAfterSend(ok) == IF ok THEN "sleep" ELSE "done"

\* send_message returns and the guard is dropped at the end of the if-let
HbReturn(p) ==
    /\ hb[p] = "write"
    /\ EndWrite(PingThread(p), p)
    /\ hb' = [hb EXCEPT ![p] = HbAfterSend(SendOk(p))]
    /\ h_out' = [h_out EXCEPT ![p] = NoFrame]

HbEnd(p) ==
    /\ HbReturn(p)
    /\ UNCHANGED <<otherVars, clock, netVars, registry, recVars, regLock, pc, r_out, bc>>

(* ---- the receive thread: reading (main.rs 296-347) ---- *)

\* recv_message, under the record's lock, returns Ok(frame) with a frame of
\* the given type: the handler can run
Recv(p, type) ==
    /\ pc[p] = "loop"
    /\ CanLock(p)
    /\ conn[p] = "open"
    /\ inbox[p] # <<>>
    /\ Head(inbox[p]).type = type
    /\ inbox' = [inbox EXCEPT ![p] = Tail(@)]
    /\ UNCHANGED conn

\* recv_message returns an IoError: no frame has arrived yet, or the connection
\* is dead; either way the loop sleeps 10 ms and reads again (main.rs 312-314,
\* 341-344)
RecvIoError(p) ==
    /\ pc[p] = "loop"
    /\ CanLock(p)
    /\ conn[p] = "ioerr" \/ (conn[p] = "open" /\ inbox[p] = <<>>)
    /\ pc' = [pc EXCEPT ![p] = "idle"]
    /\ UNCHANGED <<otherVars, clock, netVars, registry, recVars, lockVars, r_out, hb, h_out, bc>>

\* the 10 ms are over
RecvRetry(p) ==
    /\ pc[p] = "idle"
    /\ pc' = [pc EXCEPT ![p] = "loop"]
    /\ UNCHANGED <<otherVars, clock, netVars, registry, recVars, lockVars, r_out, hb, h_out, bc>>

\* recv_message returns an error that is not an IoError (the stream ended):
\* should_break (main.rs 315-318)
RecvError(p) ==
    /\ pc[p] = "loop"
    /\ CanLock(p)
    /\ conn[p] = "eof"
    /\ pc' = [pc EXCEPT ![p] = "remove"]
    /\ UNCHANGED <<otherVars, clock, netVars, registry, recVars, lockVars, r_out, hb, h_out, bc>>

\* should_break: remove the record and leave the loop (main.rs 330-338)
Remove(p) ==
    /\ pc[p] = "remove"
    /\ CanLockRegistry
    /\ registry' = registry \ {p}
    /\ pc' = [pc EXCEPT ![p] = "done"]
    /\ UNCHANGED <<otherVars, clock, netVars, recVars, lockVars, r_out, hb, h_out, bc>>

(* ---- the receive thread: handlers that answer on the own transport ---- *)

\* lock the own record and enter send_message(frame); then go on at `after`
SelfSend(p, frame, at) ==
    /\ CanLock(p)
    /\ BeginWrite(RecvThread(p), p)
    /\ r_out' = [r_out EXCEPT ![p] = [to |-> p, frame |-> frame]]
    /\ pc' = [pc EXCEPT ![p] = at]

\* OwnedMessage::Close: answer Close (main.rs 349-353)
OnClose(p) ==
    /\ Recv(p, "Close")
    /\ SelfSend(p, Frame("Close", <<>>, <<>>), "send_close")
    /\ UNCHANGED <<otherVars, clock, registry, recVars, regLock, hb, h_out, bc>>

\* OwnedMessage::Ping: answer Pong(ping) (main.rs 365-370)
OnPing(p) ==
    /\ Recv(p, "Ping")
    /\ SelfSend(p, Frame("Pong", <<>>, Head(inbox[p]).data), "send")
    /\ UNCHANGED <<otherVars, clock, registry, recVars, regLock, hb, h_out, bc>>

\* OwnedMessage::Binary: echo (main.rs 452-458)
OnBinary(p) ==
    /\ Recv(p, "Binary")
    /\ SelfSend(p, Frame("Binary", <<>>, Head(inbox[p]).data), "send")
    /\ UNCHANGED <<otherVars, clock, registry, recVars, regLock, hb, h_out, bc>>

\* any other text: echo with the prefix "Echo: " (main.rs 445-450)
OnOtherText(p) ==
    /\ Recv(p, "Text")
    /\ LET text == Head(inbox[p]).text IN
         /\ IsOtherText(text)
         /\ SelfSend(p, TextFrame(EchoText(text)), "send")
    /\ UNCHANGED <<otherVars, clock, registry, recVars, regLock, hb, h_out, bc>>

\* a handler that ends every participant's wait
ClearAllFlags(flags, p) == [q \in Addrs |-> FALSE]

\* locked_client_data.waiting_for_photon_pings = false, on p's own record
ClearFlag(flags, p) == [flags EXCEPT ![p] = FALSE]

\* PHOTON_PINGS:<json> (main.rs 411-444): store, clear the flag, acknowledge;
\* a document that does not parse is only logged
OnPhotonPings(p) ==
    /\ Recv(p, "Text")
    /\ LET text == Head(inbox[p]).text IN
         /\ IsPhotonPings(text)
         /\ LET response == from_str(trim_start_matches(text, PHOTON_PINGS_PREFIX))
            IN  IF response.ok
                THEN /\ SelfSend(p, TextFrame(AckText), "send")
                     /\ photon_pings' = [photon_pings EXCEPT ![p] = Some(response.regions)]
                     /\ waiting_for_photon_pings' = ClearFlag(waiting_for_photon_pings, p)
                ELSE UNCHANGED <<photon_pings, waiting_for_photon_pings, lockVars, r_out, pc>>
    /\ UNCHANGED <<otherVars, clock, registry, ping_history, smoothed_ping, regLock,
                   hb, h_out, bc>>

\* a - b in u128 without overflow checks: the difference modulo 2^128.  A
\* u128 of 2^128 - d, d small, is written as the number -d: sums and
\* to_be_bytes of it are then exact, and so is a quotient by 1.
wrapping_sub(a, b) == a - b

\* OwnedMessage::Pong (main.rs 459-489): a 32-byte payload gives a sample;
\* now - sent_time is computed before the record is locked, and with overflow
\* checks it panics when sent_time is the later of the two
OnPong(p) ==
    /\ Recv(p, "Pong")
    /\ LET data == Head(inbox[p]).data IN
         IF Len(data) = 32
         THEN LET sent_time == from_be_bytes(SubSeq(data, 1, 16))
                  now == clock
              IN  IF SubOverflows(now, sent_time) /\ overflow_checks
                  THEN \* attempt to subtract with overflow: the thread ends
                       /\ pc' = [pc EXCEPT ![p] = "panicked"]
                       /\ UNCHANGED <<ping_history, smoothed_ping>>
                  ELSE LET latency == wrapping_sub(now, sent_time)
                           r == add_ping(ping_history[p], now, latency, clock)
                       IN  /\ ping_history' = [ping_history EXCEPT ![p] = r.ping_history]
                           /\ smoothed_ping' = [smoothed_ping EXCEPT ![p] = r.smoothed_ping]
                           /\ UNCHANGED pc
         ELSE UNCHANGED <<ping_history, smoothed_ping, pc>>
    /\ UNCHANGED <<otherVars, clock, registry, photon_pings, waiting_for_photon_pings,
                   lockVars, r_out, hb, h_out, bc>>

\* send_message on the own transport returns; its result is dropped
SendEnd(p) ==
    /\ pc[p] \in {"send", "send_close"}
    /\ EndWrite(RecvThread(p), p)
    /\ r_out' = [r_out EXCEPT ![p] = NoWrite]
    /\ pc' = [pc EXCEPT ![p] = IF pc[p] = "send_close" THEN "close_rm" ELSE "loop"]
    /\ bc' = [bc EXCEPT ![p] = NoBroadcast]
    /\ UNCHANGED <<otherVars, clock, netVars, registry, recVars, regLock, hb, h_out>>

\* after answering Close: remove the record and leave the loop (main.rs 355-363)
CloseRemove(p) ==
    /\ pc[p] = "close_rm"
    /\ CanLockRegistry
    /\ registry' = registry \ {p}
    /\ pc' = [pc EXCEPT ![p] = "done"]
    /\ UNCHANGED <<otherVars, clock, netVars, recVars, lockVars, r_out, hb, h_out, bc>>

(* ---- request_photon_pings_from_all (main.rs 195-213) ---- *)

\* SEND_PLAY (main.rs 375-390): parse, then enter request_photon_pings_from_all,
\* which locks the registry for the whole of its loop
OnSendPlay(p) ==
    /\ Recv(p, "Text")
    /\ CanLockRegistry
    /\ regLock' = RecvThread(p)
    /\ LET text == Head(inbox[p]).text IN
         /\ IsSendPlay(text)
         /\ LET cmd == ParseSendPlay(text)
            IN  bc' = [bc EXCEPT ![p] = [NoBroadcast EXCEPT
                          !.kind = "play",
                          !.target_region = cmd.target_region,
                          !.message = cmd.message,
                          !.todo = registry]]
    /\ pc' = [pc EXCEPT ![p] = "req"]
    /\ UNCHANGED <<otherVars, clock, registry, recVars, cliLock, writers,
                   r_out, hb, h_out>>

\* REQUEST_PING (main.rs 398-410): forward the request to every participant
OnRequestPing(p) ==
    /\ Recv(p, "Text")
    /\ CanLockRegistry
    /\ regLock' = RecvThread(p)
    /\ LET text == Head(inbox[p]).text IN
         /\ IsRequestPing(text)
         /\ bc' = [bc EXCEPT ![p] = [NoBroadcast EXCEPT
                      !.kind = "forward",
                      !.target_region = ParseRequestPing(text),
                      !.todo = registry]]
    /\ pc' = [pc EXCEPT ![p] = "req"]
    /\ UNCHANGED <<otherVars, clock, registry, recVars, cliLock, writers,
                   r_out, hb, h_out>>

\* one iteration: lock q, set the flag, clear the data, enter send_message
ReqNext(p) ==
    /\ pc[p] = "req"
    /\ \E q \in bc[p].todo :
         /\ CanLock(q)
         /\ BeginWrite(RecvThread(p), q)
         /\ waiting_for_photon_pings' = [waiting_for_photon_pings EXCEPT ![q] = TRUE]
         /\ photon_pings' = [photon_pings EXCEPT ![q] = None]
         /\ r_out' = [r_out EXCEPT ![p] =
                [to |-> q, frame |-> TextFrame(RequestPingText(bc[p].target_region))]]
         /\ bc' = [bc EXCEPT ![p].asked =
                @ \cup {[to |-> q, text |-> RequestPingText(bc[p].target_region)]}]
    /\ pc' = [pc EXCEPT ![p] = "req_w"]
    /\ UNCHANGED <<otherVars, clock, netVars, registry, ping_history, smoothed_ping, regLock,
                   hb, h_out>>

\* send_message returns (Ok or Err, both only logged); after the last
\* participant the registry is unlocked and the function returns: to the wait
\* loop of send_play_message_to_all, or to the receive loop
ReqReturn(p) ==
    /\ pc[p] = "req_w"
    /\ EndWrite(RecvThread(p), r_out[p].to)
    /\ r_out' = [r_out EXCEPT ![p] = NoWrite]
    /\ LET rest == bc[p].todo \ {r_out[p].to}
       IN  IF rest # {}
           THEN /\ bc' = [bc EXCEPT ![p].todo = rest]
                /\ pc' = [pc EXCEPT ![p] = "req"]
                /\ UNCHANGED regLock
           ELSE /\ regLock' = NoThread
                /\ IF bc[p].kind = "play"
                   THEN /\ bc' = [bc EXCEPT ![p].todo = {},
                                            ![p].asked = {},
                                            ![p].start_time = clock,
                                            ![p].all_clients_responded = FALSE]
                        /\ pc' = [pc EXCEPT ![p] = "wait"]
                   ELSE /\ bc' = [bc EXCEPT ![p] = NoBroadcast]
                        /\ pc' = [pc EXCEPT ![p] = "loop"]

ReqEnd(p) ==
    /\ ReqReturn(p)
    /\ UNCHANGED <<otherVars, clock, netVars, registry, recVars, hb, h_out>>

(* ---- send_play_message_to_all (main.rs 128-193) ---- *)

\* a wait that gives up after one poll interval
LoopConditionOnePoll(all_clients_responded, elapsed) ==
    ~all_clients_responded /\ elapsed < POLL_MS

\* while !all_clients_responded && start_time.elapsed() < max_wait_time
LoopCondition(all_clients_responded, elapsed) ==
    ~all_clients_responded /\ elapsed < MAX_WAIT_MS

\* the loop condition is true: poll the flags under the registry lock; the
\* scan stops at the first participant still waiting.  The poll takes each
\* record's lock in turn; a record changes only in the step that takes its
\* lock, so what the poll reads after waiting for a lock is the record as it is.
WaitPoll(p) ==
    /\ pc[p] = "wait"
    /\ LoopCondition(bc[p].all_clients_responded, clock - bc[p].start_time)
    /\ CanLockRegistry
    /\ LET all == \A q \in registry : ~waiting_for_photon_pings[q]
       IN  /\ bc' = [bc EXCEPT ![p].all_clients_responded = all]
           /\ pc' = [pc EXCEPT ![p] = IF all THEN "wait" ELSE "sleep"]
    /\ UNCHANGED <<otherVars, clock, netVars, registry, recVars, lockVars, r_out, hb, h_out>>

\* thread::sleep(50 ms): the clock has advanced when the thread runs again
WaitSleep(p) ==
    /\ pc[p] = "sleep"
    /\ clock' = clock + POLL_MS + Oversleep
    /\ pc' = [pc EXCEPT ![p] = "wait"]
    /\ UNCHANGED <<otherVars, netVars, registry, recVars, lockVars, r_out, hb, h_out, bc>>

\* the loop condition is false: every participant answered, or 2 s are over
WaitExit(p) ==
    /\ pc[p] = "wait"
    /\ ~LoopCondition(bc[p].all_clients_responded, clock - bc[p].start_time)
    /\ pc' = [pc EXCEPT ![p] = "compute"]
    /\ UNCHANGED <<otherVars, clock, netVars, registry, recVars, lockVars, r_out, hb, h_out, bc>>

\* read the clock, get_highest_rtt, the future timestamp and the PLAY text
\* (main.rs 165-179); get_highest_rtt reads the records like the poll does
Compute(p) ==
    /\ pc[p] = "compute"
    /\ CanLockRegistry
    /\ LET now == clock
           highest_rtt == get_highest_rtt(bc[p].target_region)
           future_timestamp == FutureTimestamp(now, highest_rtt)
       IN  bc' = [bc EXCEPT ![p].now = now,
                            ![p].highest_rtt = highest_rtt,
                            ![p].play_message =
                                PlayText(future_timestamp, bc[p].message, highest_rtt)]
    /\ pc' = [pc EXCEPT ![p] = "play_start"]
    /\ UNCHANGED <<otherVars, clock, netVars, registry, recVars, lockVars, r_out, hb, h_out>>

\* let locked_clients = clients.lock().unwrap(): held until the function returns
PlayStart(p) ==
    /\ pc[p] = "play_start"
    /\ CanLockRegistry
    /\ regLock' = RecvThread(p)
    /\ bc' = [bc EXCEPT ![p].todo = registry]
    /\ pc' = [pc EXCEPT ![p] = "play"]
    /\ UNCHANGED <<otherVars, clock, netVars, registry, recVars, cliLock, writers,
                   r_out, hb, h_out>>

\* a PLAY loop that stops at the first failed send
PlayRestStopOnError(todo, q, ok) == IF ok THEN todo \ {q} ELSE {}

\* what the PLAY loop has yet to visit after the send to q returned ok or not
PlayRest(todo, q, ok) == todo \ {q}

\* one iteration: lock q and enter send_message(Text(play_message))
PlayNext(p) ==
    /\ pc[p] = "play"
    /\ \E q \in bc[p].todo :
         /\ CanLock(q)
         /\ BeginWrite(RecvThread(p), q)
         /\ r_out' = [r_out EXCEPT ![p] =
                [to |-> q, frame |-> TextFrame(bc[p].play_message)]]
    /\ pc' = [pc EXCEPT ![p] = "play_w"]
    /\ UNCHANGED <<otherVars, clock, netVars, registry, recVars, regLock, hb, h_out, bc>>

\* send_message returns: Ok and Err are both only logged; after the last
\* participant the registry is unlocked
PlayEnd(p) ==
    /\ pc[p] = "play_w"
    /\ EndWrite(RecvThread(p), r_out[p].to)
    /\ r_out' = [r_out EXCEPT ![p] = NoWrite]
    /\ LET q == r_out[p].to
           rest == PlayRest(bc[p].todo, q, SendOk(q))
           entry == [to |-> q, text |-> r_out[p].frame.text, ok |-> SendOk(q)]
       IN  /\ bc' = [bc EXCEPT ![p].todo = rest, ![p].log = Append(@, entry)]
           /\ IF rest # {}
              THEN /\ pc' = [pc EXCEPT ![p] = "play"]
                   /\ UNCHANGED regLock
              ELSE /\ pc' = [pc EXCEPT ![p] = "confirm"]
                   /\ regLock' = NoThread
    /\ UNCHANGED <<otherVars, clock, netVars, registry, recVars, hb, h_out>>

\* the confirmation to the participant that sent the command (main.rs 392-397)
Confirm(p) ==
    /\ pc[p] = "confirm"
    /\ SelfSend(p, TextFrame(ConfirmText(bc[p].message)), "send")
    /\ UNCHANGED <<otherVars, clock, netVars, registry, recVars, regLock, hb, h_out, bc>>

Next ==
    \E p \in Addrs :
        \/ Accept(p) \/ LinkFails(p)
        \/ HbBegin(p) \/ HbEnd(p)
        \/ RecvIoError(p) \/ RecvRetry(p) \/ RecvError(p) \/ Remove(p)
        \/ OnClose(p) \/ OnPing(p) \/ OnBinary(p) \/ OnOtherText(p)
        \/ OnPhotonPings(p) \/ OnPong(p) \/ SendEnd(p) \/ CloseRemove(p)
        \/ OnSendPlay(p) \/ OnRequestPing(p) \/ ReqNext(p) \/ ReqEnd(p)
        \/ WaitPoll(p) \/ WaitSleep(p) \/ WaitExit(p)
        \/ Compute(p) \/ PlayStart(p) \/ PlayNext(p) \/ PlayEnd(p) \/ Confirm(p)

Spec == CoordInit /\ [][Next]_vars

\* a step of p's receive thread that reads no frame
RecvThreadStep(p) ==
    \/ RecvIoError(p) \/ RecvRetry(p) \/ RecvError(p) \/ Remove(p)
    \/ SendEnd(p) \/ CloseRemove(p) \/ ReqNext(p) \/ ReqEnd(p)
    \/ WaitPoll(p) \/ WaitSleep(p) \/ WaitExit(p)
    \/ Compute(p) \/ PlayStart(p) \/ PlayNext(p) \/ PlayEnd(p) \/ Confirm(p)

\* The operating system schedules every thread, and a mutex is held only for
\* one read, one write or one loop over the registry: a thread waiting for a
\* lock gets it (strong fairness), and a write that has begun returns.
FairSpec ==
    /\ Spec
    /\ \A p \in Addrs : SF_vars(RecvThreadStep(p)) /\ WF_vars(HbEnd(p))

(***************************************************************************)
(* ParseSpec: the coordinator's reading of a SEND_PLAY text.  One           *)
(* participant sends one SEND_PLAY command drawn from all short texts over  *)
(* a small alphabet; the run ends once the handler has parsed it.           *)
(***************************************************************************)
\* the longest command tail
MaxTail == 3
TailTokens == {Colon, Str("us"), Str("demo"), Str("SEND_PLAY")}
Tails == UNION {[1..n -> TailTokens] : n \in 0..MaxTail}
SendPlayTexts == {SEND_PLAY_PREFIX \o t : t \in Tails}

ParseInit ==
    /\ overflow_checks = FALSE
    /\ CodecIdle
    /\ PhotonIdle
    /\ WindowIdle
    /\ NodeIdle
    /\ CoordQuiet
    /\ \E text \in SendPlayTexts :
          inbox = [p \in Addrs |-> IF p = "A" THEN <<TextFrame(text)>> ELSE <<>>]

ParseNext == \E p \in Addrs : Accept(p) \/ OnSendPlay(p)

ParseSpec == ParseInit /\ [][ParseNext]_vars

(***************************************************************************)
(* InvalidSpec: a coordinator and a node that are sent invalid texts.  One  *)
(* participant asks for pings, the other answers with a PHOTON_PINGS that   *)
(* does not parse before one that does; the node is sent malformed PLAY     *)
(* texts before a well-formed one.                                          *)
(***************************************************************************)
InvalidScenarios ==
    { [A |-> <<RequestPingFrame(<<>>)>>,
       B |-> <<PhotonPingsFrame("not json"), PhotonPingsFrame("[us:50]")>>],
      [A |-> <<PhotonPingsFrame("{"), PhotonPingsFrame("[]")>>,
       B |-> <<RequestPingFrame(<<Str("eu")>>)>>] }

GoodPlay == PLAY_PREFIX \o <<Num(StartClock + NodeClockStep), Colon, Str("next")>>

InvalidPlayScripts ==
    { <<PLAY_PREFIX \o <<Num(StartClock + NodeClockStep)>>, GoodPlay>>,
      <<PLAY_PREFIX \o <<Str("soon"), Colon, Str("demo"), Colon, Num(0)>>, GoodPlay>>,
      <<PLAY_PREFIX, PLAY_PREFIX \o <<Colon, Str("demo"), Colon, Num(0)>>, GoodPlay>> }

InvalidInit ==
    /\ overflow_checks = FALSE
    /\ CodecIdle
    /\ PhotonIdle
    /\ WindowIdle
    /\ NodeQuiet
    /\ n_inbox \in InvalidPlayScripts
    /\ CoordQuiet
    /\ inbox \in InvalidScenarios

InvalidNext ==
    \/ \E p \in Addrs :
        \/ Accept(p) \/ HbBegin(p) \/ HbEnd(p)
        \/ RecvIoError(p) \/ RecvRetry(p)
        \/ OnPhotonPings(p) \/ SendEnd(p)
        \/ OnRequestPing(p) \/ ReqNext(p) \/ ReqEnd(p)
    \/ NodeTick \/ NodeOnPlay \/ NodeWake

InvalidSpec == InvalidInit /\ [][InvalidNext]_vars

(***************************************************************************)
(* CodecSpec: the Photon client's protocol 1.8 serializer and deserializer  *)
(* (src/photon/src/protocol_v18.rs).  A run hands one integer or one        *)
(* parameter table to the serializer and the bytes it wrote to the          *)
(* deserializer.  A stream is the sequence of its bytes; a position is the  *)
(* index of the next byte to read.                                          *)
(***************************************************************************)
\* GpType codes, as the tests of protocol_v18.rs read them from the stream
GpType_String == 7
GpType_Null == 8
GpType_CompressedInt == 9
GpType_Int1 == 11
GpType_Int1_ == 12
GpType_Int2 == 13
GpType_Int2_ == 14
GpType_IntZero == 30
\* gp_type.rs gives StringArray its code; 71 is its code in the protocol
GpType_StringArray == 71

\* Value::Int, Value::String (its bytes), Value::Null
IntValue(v) == [kind |-> "Int", i |-> v, s |-> <<>>, a |-> <<>>]
StringValue(bytes) == [kind |-> "String", i |-> 0, s |-> bytes, a |-> <<>>]
NullValue == [kind |-> "Null", i |-> 0, s |-> <<>>, a |-> <<>>]
StringArrayValue(strings) == [kind |-> "StringArray", i |-> 0, s |-> <<>>, a |-> strings]

\* write_ushort: low byte, high byte
write_ushort(value) == <<value % 256, value \div 256>>

\* An i32 is an integer of the model, which has the same width.  A u32 is
\* the pair of its 16-bit halves, so that all 32 bits are kept.
U32(hi, lo) == [hi |-> hi, lo |-> lo]
\* n as u32, for 0 <= n < 2^31
AsU32(n) == U32(n \div 65536, n % 65536)
\* value as u32, for an i32: the two's complement bit pattern
I32AsU32(value) ==
    IF value >= 0 THEN AsU32(value)
    ELSE U32(65535 - ((-(value + 1)) \div 65536), 65535 - ((-(value + 1)) % 65536))
\* u as i32
U32AsI32(u) ==
    IF u.hi < 32768 THEN (u.hi * 65536) + u.lo
    ELSE (-(((65535 - u.hi) * 65536) + (65535 - u.lo))) - 1
\* u as usize
U32AsUsize(u) == (u.hi * 65536) + u.lo
\* !u, u << 1, u >> 1 and u >> 7 in u32
Not32(u) == U32(65535 - u.hi, 65535 - u.lo)
Shl1(u) == U32(((u.hi * 2) + (u.lo \div 32768)) % 65536, (u.lo * 2) % 65536)
Shr1(u) == U32(u.hi \div 2, (u.lo \div 2) + ((u.hi % 2) * 32768))
Shr7(u) == U32(u.hi \div 128, (u.lo \div 128) + ((u.hi % 128) * 512))
\* (g as u32) << n for a seven-bit g: the bits shifted past bit 31 are lost
ShlGroup(g, n) ==
    IF n < 16 THEN U32(((g * (2^n)) \div 65536) % 65536, (g * (2^n)) % 65536)
    ELSE U32((g * (2^(n - 16))) % 65536, 0)
\* a | b for a and b with no bit in common
Or32(a, b) == U32(a.hi + b.hi, a.lo + b.lo)

\* ((value << 1) ^ (value >> 31)) as u32: value >> 31 is all ones for a
\* negative value and zero otherwise
encode_zigzag32(value) ==
    IF value < 0 THEN Not32(Shl1(I32AsU32(value))) ELSE Shl1(I32AsU32(value))

\* a decoder that forgets the sign bit
decode_zigzag32_unsigned(value) == U32AsI32(Shr1(value))

\* ((value >> 1) as i32) ^ (-((value & 1) as i32)): the xor with -1 is the
\* complement
decode_zigzag32(value) ==
    IF (value.lo % 2) = 0 THEN U32AsI32(Shr1(value)) ELSE U32AsI32(Not32(Shr1(value)))

RECURSIVE write_compressed_uint32(_)
\* seven bits a byte, low groups first, bit 7 set on all but the last byte
write_compressed_uint32(value) ==
    IF Shr7(value) = U32(0, 0) THEN <<value.lo % 128>>
    ELSE <<128 + (value.lo % 128)>> \o write_compressed_uint32(Shr7(value))

\* write_compressed_int: the bytes it appends to the stream
write_compressed_int(value, write_type) ==
    IF write_type /\ value = 0 THEN <<GpType_IntZero>>
    ELSE IF write_type /\ value > 0 /\ value <= 255 THEN <<GpType_Int1, value>>
    ELSE IF write_type /\ value > 0 /\ value <= 65535
        THEN <<GpType_Int2>> \o write_ushort(value)
    ELSE IF write_type /\ value < 0 /\ value >= -255 THEN <<GpType_Int2_, -value>>
    ELSE IF write_type /\ value < 0 /\ value >= -65535
        THEN <<GpType_Int2_>> \o write_ushort(-value)
    ELSE (IF write_type THEN <<GpType_CompressedInt>> ELSE <<>>)
            \o write_compressed_uint32(encode_zigzag32(value))

\* write_int_length
write_int_length(value) == write_compressed_uint32(AsU32(value))

\* write_string (the model's strings are far shorter than the 32767 bytes
\* above which it panics)
write_string(value, write_type) ==
    (IF write_type THEN <<GpType_String>> ELSE <<>>)
        \o write_int_length(Len(value)) \o value

\* write: Int and String are the variants it serializes; it panics on the rest
CanWrite(value) == value.kind \in {"Int", "String"}

write(value, write_type) ==
    IF value.kind = "Int" THEN write_compressed_int(value.i, write_type)
    ELSE write_string(value.s, write_type)

RECURSIVE WriteParameters(_)
\* the for-loop of write_parameter_table over the parameters in the order the
\* HashMap yields them
WriteParameters(parameters) ==
    IF parameters = <<>> THEN <<>>
    ELSE <<Head(parameters).code>> \o write(Head(parameters).value, TRUE)
            \o WriteParameters(Tail(parameters))

\* the number of keys a HashMap<u8, Value> can hold
U8_KEYS == 256

\* write_parameter_table: parameters.iter().len() as u8; a count of 0 is
\* written alone, otherwise the count, then code and typed value of each
write_parameter_table(parameters) ==
    LET parameters_length == Len(parameters) % U8_KEYS
    IN  IF parameters_length = 0 THEN <<0>>
        ELSE <<parameters_length>> \o WriteParameters(parameters)

\* a panic of the deserializer with its message, and a value it returns
\* with the position it leaves the stream at
Panic(why) == [ok |-> FALSE, value |-> NullValue, position |-> 0, why |-> why]
Read(value, position) == [ok |-> TRUE, value |-> value, position |-> position, why |-> ""]

\* r's panic if r is one, and what F makes of r's value and position
\* otherwise: two reads one after the other
AndThen(r, F(_)) == CHOOSE y \in {IF v.ok THEN F(v) ELSE v : v \in {r}} : TRUE

\* StreamBuffer::read_byte: panics past the end
read_byte(stream, position) ==
    IF position > Len(stream) THEN Panic("Attempted to read past the end of the buffer")
    ELSE Read(stream[position], position + 1)

RECURSIVE ReadGroups(_, _, _, _)
\* the loop of read_compressed_uint32: at most five groups of seven bits
ReadGroups(stream, position, num1, num2) ==
    IF num2 = 35 THEN Read(num1, position)
    ELSE IF position > Len(stream) THEN Panic("Failed to read full uint")
    ELSE LET num4 == stream[position]
             next == Or32(num1, ShlGroup(num4 % 128, num2))
         IN  IF num4 < 128 THEN Read(next, position + 1)
             ELSE ReadGroups(stream, position + 1, next, num2 + 7)

read_compressed_uint32(stream, position) == ReadGroups(stream, position, U32(0, 0), 0)

read_compressed_int32(stream, position) ==
    LET u == read_compressed_uint32(stream, position)
    IN  IF u.ok THEN Read(decode_zigzag32(u.value), u.position) ELSE u

\* StreamBuffer::read(count): the bytes that are there, at most count
StreamRead(stream, position, count) ==
    LET available == IF count < Len(stream) - position + 1 THEN count
                     ELSE Len(stream) - position + 1
    IN  Read(SubSeq(stream, position, position + available - 1), position + available)

\* String::from_utf8(bytes) succeeds: the bytes the model handles are ASCII
\* or hold no byte that can start a longer sequence, so the ASCII ones are
\* the valid ones
Utf8(bytes) == \A k \in 1..Len(bytes) : bytes[k] < 128

\* an i16 read with the high byte first
read_int16_high_first(stream, position) ==
    AndThen(read_byte(stream, position), LAMBDA byte1 :
    AndThen(read_byte(stream, byte1.position), LAMBDA byte2 :
        LET u == (256 * byte1.value) + byte2.value
        IN  Read(IF u >= 32768 THEN u - 65536 ELSE u, byte2.position)))

\* read_int16: low byte, then high byte, as i16
read_int16(stream, position) ==
    AndThen(read_byte(stream, position), LAMBDA byte1 :
    AndThen(read_byte(stream, byte1.position), LAMBDA byte2 :
        LET u == byte1.value + (256 * byte2.value)
        IN  Read(IF u >= 32768 THEN u - 65536 ELSE u, byte2.position)))

RECURSIVE ReadStrings(_, _, _, _)
\* the for-loop of read_string_array
ReadStrings(stream, position, count, strings) ==
    IF count = 0 THEN Read(StringArrayValue(strings), position)
    ELSE AndThen(read_compressed_uint32(stream, position), LAMBDA length :
         AndThen(StreamRead(stream, length.position, U32AsUsize(length.value)),
                 LAMBDA bytes :
             IF ~Utf8(bytes.value) THEN Panic("Invalid UTF-8 string data")
             ELSE ReadStrings(stream, bytes.position, count - 1,
                      Append(strings, bytes.value))))

read_string_array(stream, position) ==
    AndThen(read_compressed_uint32(stream, position), LAMBDA length :
        ReadStrings(stream, length.position, U32AsUsize(length.value), <<>>))

\* a range of type codes that stops one short of the last custom code
InCustomRangeExclusive(gp_type) == gp_type >= 128 /\ gp_type < 228
\* 128..=228, the custom type codes
InCustomRange(gp_type) == gp_type >= 128 /\ gp_type <= 228

\* read(stream, gp_type): Int1, String, Null, CompressedInt and IntZero are
\* the arms a serialized value can reach, and StringArray one that a received
\* value can; every other code of GpType, Int2, Int1_ and Int2_ among them,
\* ends in panic!("Not implemented") and a custom type code in one of its
\* own.  (Byte and Short have arms too; gp_type.rs gives their codes, and no
\* stream of the model holds them.)
read(stream, position, gp_type) ==
    IF InCustomRange(gp_type) THEN Panic("Custom types not implemented")
    ELSE IF gp_type = GpType_Int1
        THEN LET b == read_byte(stream, position)
             IN  IF b.ok THEN Read(IntValue(b.value), b.position) ELSE b
    ELSE IF gp_type = GpType_String
        THEN LET length == read_compressed_uint32(stream, position)
             IN  IF ~length.ok THEN length
                 ELSE IF length.value = U32(0, 0)
                     THEN Read(StringValue(<<>>), length.position)
                 ELSE LET bytes == StreamRead(stream, length.position,
                                       U32AsUsize(length.value))
                      IN  IF Utf8(bytes.value)
                          THEN Read(StringValue(bytes.value), bytes.position)
                          ELSE Panic("Invalid UTF-8 string data")
    ELSE IF gp_type = GpType_Null THEN Read(NullValue, position)
    ELSE IF gp_type = GpType_CompressedInt
        THEN LET i == read_compressed_int32(stream, position)
             IN  IF i.ok THEN Read(IntValue(i.value), i.position) ELSE i
    ELSE IF gp_type = GpType_IntZero THEN Read(IntValue(0), position)
    ELSE IF gp_type = GpType_StringArray THEN read_string_array(stream, position)
    ELSE Panic("Not implemented")

\* a type byte, then the value: what read_parameter_dictionary does for each
\* parameter and deserialize_operation_response for the debug message
ReadTyped(stream, position) ==
    LET gp_type == read_byte(stream, position)
    IN  IF gp_type.ok THEN read(stream, gp_type.position, gp_type.value) ELSE gp_type

RECURSIVE ReadParameters(_, _, _, _)
\* parameters.set(code, value)
Set(parameters, code, value) ==
    {e \in parameters : e.code # code} \cup {[code |-> code, value |-> value]}

\* the for-loop of read_parameter_dictionary
ReadParameters(stream, position, capacity, parameters) ==
    IF capacity = 0 THEN Read(parameters, position)
    ELSE AndThen(read_byte(stream, position), LAMBDA code :
         AndThen(ReadTyped(stream, code.position), LAMBDA value :
             ReadParameters(stream, value.position, capacity - 1,
                 Set(parameters, code.value, value.value))))

read_parameter_dictionary(stream, position) ==
    LET capacity == read_byte(stream, position)
    IN  IF capacity.ok
        THEN ReadParameters(stream, capacity.position, capacity.value, {})
        ELSE capacity

\* the integers handed to the serializer: every value up to SmallInt either
\* side of zero, and the values around the limits of each encoding
SmallInt == 20
CodecInts ==
    (-SmallInt..SmallInt) \cup
    {42, 127, 128, 255, 256, 1000, 65535, 65536, 1000000, 1073741823,
     -42, -255, -256, -1000, -65535, -65536, -1000000, -1073741824,
     1073741824, -1073741825, 2147483647, -2147483647, (-2147483647) - 1}

\* the values and codes of the parameter tables
TableValues ==
    {IntValue(0), IntValue(42), IntValue(300), IntValue(-1), IntValue(100000),
     StringValue(<<>>), StringValue(<<104, 105>>)}
TableCodes == {1, 224}
\* a ParameterDictionary is the set of its (code, value) entries
Tables ==
    {t \in SUBSET [code : TableCodes, value : TableValues] :
        \A e, f \in t : e.code = f.code => e = f}

\* the u32 values handed to the varint writer: the values around the limits
\* of each length, and the largest
VarintHalves == {0, 1, 31, 32, 4095, 4096, 32767, 32768, 65535}
VarintInputs ==
    {U32(hi, lo) : hi \in VarintHalves, lo \in (0..SmallInt) \cup {127, 128, 16383, 16384, 65535}}

\* the bytes of a received message handed to the reader of a typed value: a
\* type byte and up to MaxRawTail bytes after it
MaxRawTail == 2
RawTypes == {GpType_String, GpType_Null, GpType_CompressedInt, GpType_Int1,
             GpType_IntZero, 0, 127, 128, 129, 200, 227, 228, 229, 255}
RawBytes == {0, 1, 128, 255}
RawInputs ==
    {<<t>> \o tail : t \in RawTypes,
                     tail \in UNION {[1..n -> RawBytes] : n \in 0..MaxRawTail}}

\* deserialize_operation_response: the opcode, the return code, the debug
\* message (kept when it is a String) and the parameters
OperationResponse(operation_code, return_code, debug_message, payload) ==
    [operation_code |-> operation_code, return_code |-> return_code,
     debug_message |-> debug_message, payload |-> payload]
deserialize_operation_response(stream, position) ==
    AndThen(read_byte(stream, position), LAMBDA operation_code :
    AndThen(read_int16(stream, operation_code.position), LAMBDA return_code :
    AndThen(ReadTyped(stream, return_code.position), LAMBDA debug_message :
    AndThen(read_parameter_dictionary(stream, debug_message.position),
            LAMBDA payload :
        Read(OperationResponse(operation_code.value, return_code.value,
                 IF debug_message.value.kind = "String"
                 THEN Some(debug_message.value.s) ELSE None,
                 payload.value),
             payload.position)))))

CodecInput(kind, i, table, u, raw) ==
    [kind |-> kind, i |-> i, table |-> table, u |-> u, raw |-> raw,
     response |-> OperationResponse(0, 0, None, {}),
     padding |-> 0]

\* the operation responses handed to the deserializer.  The return codes are
\* the i16 values around zero, around the sign bit of the low byte and at the
\* two ends; the debug messages are absent, empty, short, the ten bytes the
\* test of the deserializer leaves after its length byte 10 ("hello" and
\* five zero bytes of the stream), and LongText bytes, whose length takes two
\* bytes as a varint.  Padding is the number of zero bytes with_capacity
\* leaves after the bytes written: none for a received message, whose stream
\* has the capacity of the message, and some for the stream of the test.
LongText == 128
TestPadding == 34
ResponseOpcodes == {0, 220, 255}
ReturnCodes == {0, 1, -1, 255, 256, 32767, -32768}
DebugMessages ==
    {None, Some(<<>>), Some(<<104, 105>>),
     Some(<<104, 101, 108, 108, 111, 0, 0, 0, 0, 0>>),
     Some([k \in 1..LongText |-> 97])}
ResponsePaddings == {0, TestPadding}
\* the payloads whose values are written with a type the reader implements
ResponseTables ==
    {t \in Tables : \A e \in t : ReadTyped(write(e.value, TRUE), 1).ok}
ResponseInputs ==
    {[CodecInput("Response", 0, {}, U32(0, 0), <<>>)
        EXCEPT !.response = OperationResponse(o, c, d, t), !.padding = p] :
        o \in ResponseOpcodes, c \in ReturnCodes, d \in DebugMessages,
        t \in ResponseTables, p \in ResponsePaddings}
CodecInputs ==
    {CodecInput("Int", v, {}, U32(0, 0), <<>>) : v \in CodecInts}
        \cup {CodecInput("Table", 0, t, U32(0, 0), <<>>) : t \in Tables}
        \cup {CodecInput("ZigZag", v, {}, U32(0, 0), <<>>) : v \in CodecInts}
        \cup {CodecInput("Varint", 0, {}, u, <<>>) : u \in VarintInputs}
        \cup {CodecInput("Raw", 0, {}, U32(0, 0), raw) : raw \in RawInputs}
        \cup ResponseInputs

CodecInit ==
    /\ overflow_checks = FALSE
    /\ WindowIdle
    /\ NodeIdle
    /\ CoordIdle
    /\ PhotonIdle
    /\ c_input \in CodecInputs
    /\ c_stream = <<>>
    /\ c_result = None
    /\ c_pos = 1
    /\ c_error = ""
    /\ c_pc = "start"

codecRest == <<overflow_checks, winVars, nodeVars, coordVars, photonVars, c_input>>

\* write_compressed_int(stream, value, true)
WriteInt ==
    /\ c_pc = "start"
    /\ c_input.kind = "Int"
    /\ c_stream' = write_compressed_int(c_input.i, TRUE)
    /\ c_pc' = "written"
    /\ UNCHANGED <<codecRest, c_result, c_pos, c_error>>

\* write_parameter_table(stream, parameters)
WriteTable ==
    /\ c_pc = "start"
    /\ c_input.kind = "Table"
    /\ \A e \in c_input.table : CanWrite(e.value)
    /\ \E parameters \in Orderings(c_input.table) :
          c_stream' = write_parameter_table(parameters)
    /\ c_pc' = "written"
    /\ UNCHANGED <<codecRest, c_result, c_pos, c_error>>

\* the deserializer has returned r, or panicked
Returned(r) ==
    /\ c_pc' = IF r.ok THEN "read" ELSE "panicked"
    /\ c_result' = IF r.ok THEN Some(r.value) ELSE None
    /\ c_pos' = IF r.ok THEN r.position ELSE c_pos
    /\ c_error' = r.why

\* the type byte and read(stream, gp_type)
ReadInt ==
    /\ c_pc = "written"
    /\ c_input.kind = "Int"
    /\ Returned(ReadTyped(c_stream, 1))
    /\ UNCHANGED <<codecRest, c_stream>>

\* read_parameter_dictionary(stream)
ReadTable ==
    /\ c_pc = "written"
    /\ c_input.kind = "Table"
    /\ Returned(read_parameter_dictionary(c_stream, 1))
    /\ UNCHANGED <<codecRest, c_stream>>

\* decode_zigzag32(encode_zigzag32(value)), as the round-trip test calls them
ZigZagRoundTrip ==
    /\ c_pc = "start"
    /\ c_input.kind = "ZigZag"
    /\ c_result' = Some(decode_zigzag32(encode_zigzag32(c_input.i)))
    /\ c_pc' = "read"
    /\ UNCHANGED <<codecRest, c_stream, c_pos, c_error>>

\* write_compressed_uint32(stream, value)
WriteVarint ==
    /\ c_pc = "start"
    /\ c_input.kind = "Varint"
    /\ c_stream' = write_compressed_uint32(c_input.u)
    /\ c_pc' = "written"
    /\ UNCHANGED <<codecRest, c_result, c_pos, c_error>>

\* read_compressed_uint32(stream)
ReadVarint ==
    /\ c_pc = "written"
    /\ c_input.kind = "Varint"
    /\ Returned(read_compressed_uint32(c_stream, 1))
    /\ UNCHANGED <<codecRest, c_stream>>

\* the bytes of a received message are written to a fresh stream, which is
\* rewound
LoadRaw ==
    /\ c_pc = "start"
    /\ c_input.kind = "Raw"
    /\ c_stream' = c_input.raw
    /\ c_pc' = "written"
    /\ UNCHANGED <<codecRest, c_result, c_pos, c_error>>

\* the type byte and read(stream, gp_type) on received bytes
ReadRaw ==
    /\ c_pc = "written"
    /\ c_input.kind = "Raw"
    /\ Returned(ReadTyped(c_stream, 1))
    /\ UNCHANGED <<codecRest, c_stream>>

\* the bytes of an operation response: the opcode, the return code as the
\* two bytes of an i16 with the low byte first, the debug message as a typed
\* value (Null when there is none) and the parameter table
ResponseFrame(response, parameters) ==
    <<response.operation_code>> \o write_ushort(response.return_code % 65536)
        \o (IF response.debug_message = None THEN <<GpType_Null>>
            ELSE write_string(response.debug_message[1], TRUE))
        \o write_parameter_table(parameters)

\* a stream made with_capacity, the bytes of the response written to it, and
\* the stream rewound
LoadResponse ==
    /\ c_pc = "start"
    /\ c_input.kind = "Response"
    /\ \E parameters \in Orderings(c_input.response.payload) :
          c_stream' = ResponseFrame(c_input.response, parameters)
                          \o [k \in 1..c_input.padding |-> 0]
    /\ c_pc' = "written"
    /\ UNCHANGED <<codecRest, c_result, c_pos, c_error>>

\* deserialize_operation_response(stream)
ReadResponse ==
    /\ c_pc = "written"
    /\ c_input.kind = "Response"
    /\ Returned(deserialize_operation_response(c_stream, 1))
    /\ UNCHANGED <<codecRest, c_stream>>

CodecNext ==
    \/ WriteInt \/ WriteTable \/ ReadInt \/ ReadTable
    \/ ZigZagRoundTrip \/ WriteVarint \/ ReadVarint \/ LoadRaw \/ ReadRaw
    \/ LoadResponse \/ ReadResponse

CodecSpec == CodecInit /\ [][CodecNext]_vars

(***************************************************************************)
(* Properties of the coordinator                                           *)
(***************************************************************************)
SetMax(S) == IF S = {} THEN 0 ELSE CHOOSE m \in S : \A x \in S : x <= m

\* the smoothed round trips of the registry, an undefined one counting as 0
SmoothedRtts == {unwrap_or(smoothed_ping[q], 0) : q \in registry}

\* the latencies the registry's participants reported for a region
RegionLatencies(region) ==
    UNION { {photon_pings[q][1][i].latency :
                i \in {j \in DOMAIN photon_pings[q][1] :
                          photon_pings[q][1][j].region = region}} :
            q \in {x \in registry : photon_pings[x] # None} }

\* some participant holds an entry for another region that is larger than
\* every entry for the target region
LargerForeignEntry(region) ==
    \E q \in registry :
        /\ photon_pings[q] # None
        /\ \E i \in DOMAIN photon_pings[q][1] :
             /\ photon_pings[q][1][i].region # region
             /\ photon_pings[q][1][i].latency > SetMax(RegionLatencies(region))

\* C1: whenever a broadcast computes H, H is the largest smoothed round trip
\* in the registry (undefined counting as 0) plus the largest latency any
\* participant reported for the target region (0 if none); entries for other
\* regions do not count.
C1_HighestRttIsSumOfMaxima ==
    [][\A p \in Addrs :
          Compute(p) =>
              bc'[p].highest_rtt =
                  SetMax(SmoothedRtts) + SetMax(RegionLatencies(bc[p].target_region))]_vars

\* C1 happens: H = 60 + 80 has been computed from smoothed round trips 40 and
\* 60 and the entries us:50, eu:90, us:80 for the target region us
C1_Witness ==
    \E p \in Addrs :
        /\ pc[p] = "play_start"
        /\ bc[p].highest_rtt = 140
        /\ bc[p].target_region = <<Str("us")>>
        /\ SmoothedRtts = {40, 60}
        /\ RegionLatencies(<<Str("us")>>) = {50, 80}
        /\ LargerForeignEntry(<<Str("us")>>)

\* the text PLAY:<target_ts>:<payload>:<H> with target_ts = now + floor(3H/2)
PlayFormat(now, payload, H) ==
    <<Str("PLAY"), Colon, Num(now + (3 * H) \div 2), Colon>> \o payload \o <<Colon, Num(H)>>

\* C2: every PLAY text a broadcast writes is PLAY:<target_ts>:<payload>:<H>
\* with target_ts = now + floor(3H/2), H the value computed for the broadcast
\* and now the clock read after the wait phase has ended.
C2_PlayCarriesTimestampAndRtt ==
    \A p \in Addrs :
        /\ pc[p] = "play_w" =>
              r_out[p].frame =
                  TextFrame(PlayFormat(bc[p].now, bc[p].message, bc[p].highest_rtt))
        /\ \A i \in DOMAIN bc[p].log :
              bc[p].log[i].text = PlayFormat(bc[p].now, bc[p].message, bc[p].highest_rtt)
        /\ pc[p] \in {"play_start", "play", "play_w", "confirm"} =>
              /\ bc[p].now <= clock
              /\ bc[p].all_clients_responded \/ bc[p].now - bc[p].start_time >= MAX_WAIT_MS

\* C2 happens: at now = 1,000,000 with H = 140 the text PLAY:1000210:demo:140
\* is being written
C2_Witness ==
    \E p \in Addrs :
        /\ pc[p] = "play_w"
        /\ bc[p].now = 1000000
        /\ bc[p].highest_rtt = 140
        /\ r_out[p].frame.text =
              <<Str("PLAY"), Colon, Num(1000210), Colon, Str("demo"), Colon, Num(140)>>

\* p's broadcast has left the wait phase
PastWait(p) == pc[p] \in {"compute", "play_start", "play", "play_w", "confirm"}

\* C3: a broadcast leaves the wait phase only when no participant is awaiting
\* or 2000 ms have passed since the wait began, and every broadcast that has
\* sent its REQUEST_PINGs goes on to send PLAY to the end of its loop: a
\* timeout does not cancel it.
C3_WaitEndsInPlay ==
    /\ [](\A p \in Addrs :
            pc[p] = "compute" =>
                bc[p].all_clients_responded \/ clock - bc[p].start_time >= MAX_WAIT_MS)
    /\ \A p \in Addrs : (pc[p] = "wait") ~> (pc[p] = "confirm" /\ bc[p].log # <<>>)

\* C3 happens: the wait ended by timeout with a participant still awaiting,
\* and PLAY has been sent
C3_Witness ==
    \E p \in Addrs :
        /\ pc[p] = "confirm"
        /\ ~bc[p].all_clients_responded
        /\ bc[p].now - bc[p].start_time >= MAX_WAIT_MS
        /\ \E i \in DOMAIN bc[p].log : bc[p].log[i].ok

LogTargets(p) == {bc[p].log[i].to : i \in DOMAIN bc[p].log}

\* C4: when the PLAY loop of a broadcast ends, exactly the participants in
\* the registry have each been sent the PLAY once, all the same text, whether
\* or not a send failed on the way.
C4_PlayReachesWholeRegistry ==
    [][\A p \in Addrs :
          (pc[p] = "play_w" /\ pc'[p] = "confirm") =>
              /\ LogTargets(p)' = registry
              /\ Len(bc'[p].log) = Cardinality(registry)
              /\ \A i \in DOMAIN bc'[p].log : bc'[p].log[i].text = bc[p].play_message]_vars

\* C4 happens: the first send of a PLAY loop failed and the second was made
C4_Witness ==
    \E p \in Addrs :
        /\ pc[p] = "confirm"
        /\ Len(bc[p].log) = 2
        /\ ~bc[p].log[1].ok
        /\ bc[p].log[2].ok

\* C5: once a broadcast has left its wait phase, by replies or by timeout, no
\* participant is awaiting region pings.  (In the runs with a broadcast no
\* REQUEST_PING is sent apart from the broadcast's own.)
C5_NoFlagAfterWait ==
    \A p \in Addrs : PastWait(p) => \A q \in Addrs : ~waiting_for_photon_pings[q]

\* C6: no broadcast starts while the registry holds a participant whose
\* heartbeat task has stopped on a failed send.
C6_FailedHeartbeatRemoves ==
    [][\A p \in Addrs :
          OnSendPlay(p) => \A q \in registry : hb[q] # "done"]_vars

\* C7: once the receive task has met the I/O error of a dead connection, the
\* participant is not in the registry.
C7_DeadConnectionNotInRegistry ==
    \A p \in Addrs : (pc[p] = "idle" /\ conn[p] = "ioerr") => p \notin registry

\* C9: at most one thread is writing to a participant's transport, and it
\* holds that participant's mutex.
C9_OneWriterUnderMutex ==
    \A q \in Addrs :
        /\ Len(writers[q]) <= 1
        /\ writers[q] # <<>> => cliLock[q] = writers[q][1]

\* C9 happens: a broadcast on one participant's thread is writing to another
\* participant's transport while that participant's heartbeat and receive
\* tasks are both running
C9_Witness ==
    \E p, q \in Addrs :
        /\ p # q
        /\ writers[q] = <<RecvThread(p)>>
        /\ hb[q] = "sleep"
        /\ pc[q] = "loop"

\* C15: the region a SEND_PLAY command targets is never empty: a command
\* without region, or with an empty one, targets the default region "us"
\* with its payload unchanged, and a command with a region targets that region.
C15_TargetRegionNeverEmpty ==
    \A p \in Addrs : bc[p].kind = "play" => bc[p].target_region # <<>>

\* the region a REQUEST_PING command asks for: the one it names, else "us"
CommandRegion(text) ==
    IF RequestedRegion(text) # <<>> THEN RequestedRegion(text) ELSE <<Str("us")>>

\* C16: on REQUEST_PING:<region?> the coordinator sends REQUEST_PING:<region>
\* (the named region, "us" when none is named) to every participant of the
\* registry, and with each send sets that participant's awaiting flag and
\* resets its region_pings, leaving the other participants' records alone.
C16_RequestReachesWholeRegistry ==
    [][\A p \in Addrs :
        /\ (pc[p] = "loop" /\ pc'[p] = "req" /\ bc'[p].kind = "forward") =>
              /\ bc'[p].target_region = CommandRegion(Head(inbox[p]).text)
              /\ bc'[p].todo = registry
              /\ bc'[p].asked = {}
        /\ (pc[p] = "req" /\ pc'[p] = "req_w" /\ bc[p].kind = "forward") =>
              LET q == r_out'[p].to
              IN  /\ q \in registry
                  /\ r_out'[p].frame = TextFrame(REQUEST_PING_PREFIX \o bc[p].target_region)
                  /\ waiting_for_photon_pings'[q]
                  /\ photon_pings'[q] = None
                  /\ \A o \in Addrs \ {q} :
                        /\ waiting_for_photon_pings'[o] = waiting_for_photon_pings[o]
                        /\ photon_pings'[o] = photon_pings[o]
        /\ (pc[p] = "req_w" /\ pc'[p] = "loop" /\ bc[p].kind = "forward") =>
              /\ {a.to : a \in bc[p].asked} = registry
              /\ \A a \in bc[p].asked :
                    a.text = REQUEST_PING_PREFIX \o bc[p].target_region]_vars

\* C16 happens: a REQUEST_PING:eu command has been forwarded to both
\* participants of the registry, and the loop is at its last write
C16_Witness ==
    \E p \in Addrs :
        /\ pc[p] = "req_w"
        /\ bc[p].kind = "forward"
        /\ registry = Addrs
        /\ bc[p].asked = {[to |-> q, text |-> REQUEST_PING_PREFIX \o <<Str("eu")>>] : q \in Addrs}
        /\ \A q \in Addrs : waiting_for_photon_pings[q]

\* p's receive thread is about to read a PHOTON_PINGS text
PhotonPingsArrives(p) ==
    /\ pc[p] = "loop"
    /\ inbox[p] # <<>>
    /\ Head(inbox[p]).type = "Text"
    /\ starts_with(Head(inbox[p]).text, PHOTON_PINGS_PREFIX)

\* the JSON document of a PHOTON_PINGS text
JsonOf(text) == SubSeq(text, Len(PHOTON_PINGS_PREFIX) + 1, Len(text))

\* C17: when the coordinator reads a PHOTON_PINGS text from p whose JSON
\* parses, it stores the list as p's region_pings, clears p's awaiting flag
\* and starts one acknowledgement Text to p; no other participant's
\* region_pings or flag changes.
C17_PhotonPingsStored ==
    [][\A p \in Addrs :
        (/\ PhotonPingsArrives(p)
         /\ from_str(JsonOf(Head(inbox[p]).text)).ok
         /\ inbox'[p] = Tail(inbox[p])) =>
            /\ photon_pings'[p] = Some(from_str(JsonOf(Head(inbox[p]).text)).regions)
            /\ ~waiting_for_photon_pings'[p]
            /\ r_out'[p] = [to |-> p, frame |-> TextFrame(<<Str("Photon ping data received")>>)]
            /\ Len(writers'[p]) = Len(writers[p]) + 1
            /\ \A o \in Addrs \ {p} :
                  /\ photon_pings'[o] = photon_pings[o]
                  /\ waiting_for_photon_pings'[o] = waiting_for_photon_pings[o]
                  /\ writers'[o] = writers[o]]_vars

\* C17 happens: p's answer to a request is stored and being acknowledged
\* while another participant is still awaited
C17_Witness ==
    \E p \in Addrs : \E o \in Addrs \ {p} :
        /\ pc[p] = "send"
        /\ r_out[p].frame = TextFrame(<<Str("Photon ping data received")>>)
        /\ photon_pings[p] # None
        /\ Len(photon_pings[p][1]) = 3
        /\ ~waiting_for_photon_pings[p]
        /\ waiting_for_photon_pings[o]

\* a PLAY text with fewer than three fields, or whose second field is not a
\* decimal numeral
MalformedPlay(text) ==
    \/ Cardinality({i \in DOMAIN text : text[i] = Colon}) < 2
    \/ Len(text) < 4
    \/ text[4] # Colon
    \/ text[3].s \notin {"#", "#+2^64"}

\* C18: a PHOTON_PINGS whose JSON does not parse leaves every participant's
\* region_pings and awaiting flag as they were and starts no write, and the
\* receive loop goes on reading; a PLAY with fewer than three fields or a
\* non-numeric timestamp starts no wait and renders nothing, and the node
\* goes on reading.
C18_InvalidTextChangesNothing ==
    [][/\ \A p \in Addrs :
            (/\ PhotonPingsArrives(p)
             /\ ~from_str(JsonOf(Head(inbox[p]).text)).ok
             /\ inbox'[p] = Tail(inbox[p])) =>
                /\ photon_pings' = photon_pings
                /\ waiting_for_photon_pings' = waiting_for_photon_pings
                /\ writers' = writers
                /\ r_out' = r_out
                /\ registry' = registry
                /\ pc'[p] = "loop"
       /\ (/\ n_inbox # <<>>
           /\ starts_with(Head(n_inbox), PLAY_PREFIX)
           /\ MalformedPlay(Head(n_inbox))
           /\ n_inbox' = Tail(n_inbox)) =>
                /\ n_sleep' = None
                /\ n_played' = n_played
                /\ n_sent' = n_sent
                /\ n_state' = n_state]_vars

\* C18 happens: after an unparsable PHOTON_PINGS the participant's next one
\* has been stored, and after its malformed PLAY texts the node has rendered
\* the well-formed one that followed
C18_Witness ==
    /\ \E p \in Addrs :
          /\ inbox[p] = <<>>
          /\ photon_pings[p] # None
          /\ pc[p] = "loop"
    /\ n_inbox = <<>>
    /\ Len(n_played) = 1
    /\ n_played[1].payload = <<Str("next")>>

\* the most compact typed encoding of an integer
MostCompact(v) ==
    IF v = 0 THEN <<GpType_IntZero>>
    ELSE IF v \in 1..255 THEN <<GpType_Int1, v>>
    ELSE IF v \in -255..-1 THEN <<GpType_Int1_, -v>>
    ELSE IF v \in 256..65535 THEN <<GpType_Int2, v % 256, v \div 256>>
    ELSE IF v \in -65535..-256 THEN <<GpType_Int2_, (-v) % 256, (-v) \div 256>>
    ELSE <<GpType_CompressedInt>> \o write_compressed_uint32(encode_zigzag32(v))

\* C19: the bytes the serializer writes for an integer are its most compact
\* typed encoding: IntZero; Int1 or Int1_ and one byte; Int2 or Int2_ and two
\* little-endian bytes; CompressedInt and a zig-zag varint otherwise.
C19_IntegerEncodingIsMostCompact ==
    (c_pc # "start" /\ c_input.kind = "Int") => c_stream = MostCompact(c_input.i)

\* C20: the deserializer returns what was serialized: the integer for the
\* bytes of an integer, the parameter table for the bytes of a parameter table.
C20_DecodeInvertsEncode ==
    c_pc \in {"read", "panicked"} =>
        /\ c_pc = "read"
        /\ c_input.kind = "Int" => c_result = Some(IntValue(c_input.i))
        /\ c_input.kind = "Table" => c_result = Some(c_input.table)

----------------------------------------------------------------------------
(* Properties of the wire codec: zig-zag, varints and custom type codes *)

\* bit j of a u32, and its k-th group of seven bits, counted from the low end
Bit(u, j) ==
    IF j < 16 THEN (u.lo \div (2^j)) % 2
    ELSE IF j < 32 THEN (u.hi \div (2^(j - 16))) % 2
    ELSE 0
Group(u, k) ==
    Bit(u, 7 * k) + (2 * Bit(u, (7 * k) + 1)) + (4 * Bit(u, (7 * k) + 2))
        + (8 * Bit(u, (7 * k) + 3)) + (16 * Bit(u, (7 * k) + 4))
        + (32 * Bit(u, (7 * k) + 5)) + (64 * Bit(u, (7 * k) + 6))

\* C21: decode_zigzag32(encode_zigzag32(n)) is n for every i32 n, the extremes
\* included.  A u32 is written as at most five bytes, each carrying seven bits
\* of the value from the low end up, with the high bit set on every byte but
\* the last; reading them back returns the value and leaves the stream just
\* past the bytes written.
C21_ZigZagAndVarintRoundTrip ==
    /\ (c_input.kind = "ZigZag" /\ c_pc = "read") => c_result = Some(c_input.i)
    /\ (c_input.kind = "Varint" /\ c_pc # "start") =>
          /\ Len(c_stream) \in 1..5
          /\ \A k \in 1..Len(c_stream) :
                /\ c_stream[k] % 128 = Group(c_input.u, k - 1)
                /\ (c_stream[k] >= 128) <=> (k < Len(c_stream))
          /\ \A k \in (Len(c_stream) + 1)..5 : Group(c_input.u, k - 1) = 0
    /\ (c_input.kind = "Varint" /\ c_pc \notin {"start", "written"}) =>
          /\ c_pc = "read"
          /\ c_result = Some(c_input.u)
          /\ c_pos = Len(c_stream) + 1

\* the largest u32 was written as five bytes and read back
C21_Witness ==
    /\ c_input.kind = "Varint"
    /\ c_input.u = U32(65535, 65535)
    /\ c_pc = "read"
    /\ Len(c_stream) = 5

\* C22: a value whose type code lies in 128..228 is never decoded: the read
\* fails as an unsupported custom type and returns nothing, whatever bytes
\* follow the code.
C22_CustomTypeCodesFail ==
    (/\ c_input.kind = "Raw"
     /\ c_pc \notin {"start", "written"}
     /\ c_stream[1] >= 128
     /\ c_stream[1] <= 228) =>
        /\ c_pc = "panicked"
        /\ c_error = "Custom types not implemented"
        /\ c_result = None

\* the last custom code, 228, was read with two bytes after it
C22_Witness ==
    /\ c_input.kind = "Raw"
    /\ c_pc = "panicked"
    /\ Len(c_stream) = 3
    /\ c_stream[1] = 228

----------------------------------------------------------------------------
(* FrameSpec: serialize_operation_to_message (photon main.rs) *)

\* EgMessageType, by discriminant
EgMessageType_Init == 0
EgMessageType_InitResponse == 1
EgMessageType_Operation == 2
EgMessageType_OperationResponse == 3
EgMessageType_DisconnectReason == 5
EgMessageType_InternalOperationRequest == 6
EgMessageType_InternalOperationResponse == 7
EgMessageType_RawMessage == 9
EgMessageTypes == EgMessageType_Init..EgMessageType_RawMessage

MESSAGE_HEADER == <<243, 2>>

\* serialize_operation_request(stream, opcode, parameters, false): the opcode,
\* then the parameter table (the type byte that set_type asks for is never
\* asked for by this program)
serialize_operation_request(opcode, parameters) ==
    <<opcode>> \o write_parameter_table(parameters)

\* what the frame's second byte would be if it were left alone whenever the
\* first byte of the request, the opcode, is Operation's number
SecondByteByOpcode(raw_buffer, message_type) ==
    IF raw_buffer[Len(MESSAGE_HEADER) + 1] # EgMessageType_Operation
    THEN message_type ELSE raw_buffer[Len(MESSAGE_HEADER)]

\* the byte at MESSAGE_HEADER.len() - 1 after the replacement: raw_buffer[0],
\* the header's 243, is what is compared with Operation
SecondByte(raw_buffer, message_type) ==
    IF raw_buffer[1] # EgMessageType_Operation
    THEN message_type ELSE raw_buffer[Len(MESSAGE_HEADER)]

serialize_operation_to_message(opcode, param_dict, message_type) ==
    LET raw_buffer == MESSAGE_HEADER \o serialize_operation_request(opcode, param_dict)
    IN  [raw_buffer EXCEPT ![Len(MESSAGE_HEADER)] = SecondByte(raw_buffer, message_type)]

\* the opcodes the function is called with: the two this program passes and
\* the values around them and around Operation's number
FrameOpcodes == {0, 1, 2, 3, 220, 243, 255}
\* the largest ParameterDictionary: every key of 0..=255 set
FullTable == {[code |-> k, value |-> IntValue(0)] : k \in 0..(U8_KEYS - 1)}
FrameInputs ==
    [opcode : FrameOpcodes, table : Tables \cup {FullTable},
     message_type : EgMessageTypes]

\* the orders parameters.iter() may yield the entries in; of the many orders
\* of the full table the one by key is taken
Iterations(table) ==
    IF table = FullTable
    THEN {[i \in 1..U8_KEYS |-> [code |-> i - 1, value |-> IntValue(0)]]}
    ELSE Orderings(table)

\* what no part of the Photon client changes
photonRest == <<overflow_checks, winVars, nodeVars, coordVars, codecVars>>

FrameInit ==
    /\ overflow_checks = FALSE
    /\ WindowIdle
    /\ NodeIdle
    /\ CoordIdle
    /\ CodecIdle
    /\ \E input \in FrameInputs : photon = [f_input |-> input, f_frame |-> None]

Serialize ==
    /\ f_frame = None
    /\ \E param_dict \in Iterations(f_input.table) :
          photon' = [photon EXCEPT !.f_frame =
                        Some(serialize_operation_to_message(
                                 f_input.opcode, param_dict, f_input.message_type))]
    /\ UNCHANGED photonRest

FrameNext == Serialize

FrameSpec == FrameInit /\ [][FrameNext]_vars

\* C23: every frame starts with 0xF3; its second byte is 0x02 when the first
\* byte after the two-byte header is 2 and the caller's message type
\* otherwise; the bytes after the header are the serialized operation request.
C23_FrameHeader ==
    f_frame # None =>
        LET frame == f_frame[1]
        IN  /\ frame[1] = 243
            /\ frame[2] = (IF frame[3] = 2 THEN 2 ELSE f_input.message_type)
            /\ \E param_dict \in Iterations(f_input.table) :
                  SubSeq(frame, 3, Len(frame))
                      = serialize_operation_request(f_input.opcode, param_dict)

\* what the function does: the second byte is the caller's message type,
\* whatever the request's first byte is
C23_SecondByteIsMessageType ==
    f_frame # None =>
        LET frame == f_frame[1]
        IN  /\ frame[1] = 243
            /\ frame[2] = f_input.message_type
            /\ \E param_dict \in Iterations(f_input.table) :
                  SubSeq(frame, 3, Len(frame))
                      = serialize_operation_request(f_input.opcode, param_dict)

----------------------------------------------------------------------------
(* RelaySpec: the Photon client's receive loop (photon main.rs) *)

\* photon_codes::PING
PING == 1
GET_REGIONS == 220
REGION == 210
ADDRESS == 230
APPLICATION_ID == 224
PING_PORT == 5055
PING_SAMPLES == 10
\* the bytes of "0d501af7-d643-47dd-811a-cfc25ef543be"
APP_ID ==
    <<
      48, 100, 53, 48, 49, 97, 102, 55, 45, 100, 54, 52, 51, 45, 52, 55,
      100, 100, 45, 56, 49, 49, 97, 45, 99, 102, 99, 50, 53, 101, 102,
      53, 52, 51, 98, 101
    >>
\* the bytes of "us", the intended region
IntendedRegion == <<117, 115>>

\* payload.get(code)
Get(payload, code) ==
    IF \E e \in payload : e.code = code
    THEN Some((CHOOSE e \in payload : e.code = code).value) ELSE None

\* init_callback at the clock value now: the ping, with the clock at key 1
init_callback(now) ==
    serialize_operation_to_message(PING, <<[code |-> 1, value |-> IntValue(now)]>>,
        EgMessageType_InternalOperationRequest)

\* a get-regions request that leaves the application id out
get_regions_no_app_id ==
    serialize_operation_to_message(GET_REGIONS, <<>>, EgMessageType_Operation)

get_regions ==
    serialize_operation_to_message(GET_REGIONS,
        <<[code |-> APPLICATION_ID, value |-> StringValue(APP_ID)]>>,
        EgMessageType_Operation)

\* what the handler of one message did: how it ended, the panic's message
\* if it panicked, whether it began to decode the payload, the frames it
\* sent and the pinger it started
Handled(outcome, why, decoding, sent, pinger) ==
    [outcome |-> outcome, why |-> why, decoding |-> decoding, sent |-> sent,
     pinger |-> pinger]
Returns(outcome, decoding) == Handled(outcome, "", decoding, <<>>, None)
Panics(why, decoding) == Handled("panic", why, decoding, <<>>, None)

\* regions.iter().position(|region| region == intended_region)
Position(regions, region) ==
    IF \E k \in 1..Len(regions) : regions[k] = region
    THEN Some(CHOOSE k \in 1..Len(regions) :
                  /\ regions[k] = region
                  /\ \A j \in 1..(k - 1) : regions[j] # region)
    ELSE None

\* the 220 arm of the operation response: the names and the addresses must be
\* string arrays; the pinger is made for the intended region and run
OnRegions(payload) ==
    LET regions == Get(payload, REGION)
        addresses == Get(payload, ADDRESS)
        region_index == Position(regions[1].a, IntendedRegion)
    IN  IF regions = None \/ regions[1].kind # "StringArray"
            THEN Returns("no regions", TRUE)
        ELSE IF addresses = None \/ addresses[1].kind # "StringArray"
            THEN Returns("no addresses", TRUE)
        ELSE IF region_index = None
            THEN Panics("called Option::unwrap() on a None value", TRUE)
        ELSE IF region_index[1] > Len(addresses[1].a)
            THEN Panics("index out of bounds", TRUE)
        ELSE Handled("pinged", "", TRUE, <<>>,
                 Some([address |-> addresses[1].a[region_index[1]],
                       port |-> PING_PORT,
                       name |-> regions[1].a[region_index[1]],
                       sample_size |-> PING_SAMPLES]))

\* a test of the first byte that knows one magic byte only
IsOperationMessageF3Only(b) == b = 243
\* the dispatcher's test of the first byte: 243 or 253
IsOperationMessage(b) == ~(b # 243 /\ b # 253)

\* an encryption test that does not spare kind 1
NeedsDecryptionAnyKind(b3, flag) == flag
\* the frame is encrypted and the dispatcher would have to decrypt it
NeedsDecryption(b3, flag) == b3 # 1 /\ flag

\* deserialize_message_and_callback on the bytes of a binary message, at the
\* clock value now
deserialize_message_and_callback(stream, now) ==
    LET b == read_byte(stream, 1)
        b2 == read_byte(stream, 2)
        b3 == b2.value % 128
        flag == b2.value >= 128
        response == deserialize_operation_response(stream, 3)
    IN  IF ~b.ok THEN Panics(b.why, FALSE)
        ELSE IF ~IsOperationMessage(b.value) THEN Returns("discarded", FALSE)
        ELSE IF ~b2.ok THEN Panics(b2.why, FALSE)
        ELSE IF NeedsDecryption(b3, flag)
            THEN Panics("Decryption not implemented.", FALSE)
        ELSE IF b3 = 1
            THEN Handled("init", "", FALSE, <<init_callback(now), get_regions>>, None)
        ELSE IF b3 = 7
            THEN IF response.ok THEN Returns("internal response", TRUE)
                 ELSE Panics(response.why, TRUE)
        ELSE IF b3 = 3
            THEN IF ~response.ok THEN Panics(response.why, TRUE)
                 ELSE IF response.value.return_code # 0
                     THEN Returns("operation failed", TRUE)
                 ELSE IF response.value.operation_code = GET_REGIONS
                     THEN OnRegions(response.value.payload)
                 ELSE Returns("operation response", TRUE)
        ELSE IF b3 = 5 THEN Returns("disconnect", FALSE)
        ELSE Panics("Unknown operation response type", FALSE)

RECURSIVE Flatten(_)
\* the concatenation of a sequence of byte strings
Flatten(seqs) == IF seqs = <<>> THEN <<>> ELSE Head(seqs) \o Flatten(Tail(seqs))

\* the bytes the name server sends for a string array, a parameter and an
\* operation response
StringArrayBytes(strings) ==
    <<GpType_StringArray, Len(strings)>>
        \o Flatten([k \in 1..Len(strings) |-> <<Len(strings[k])>> \o strings[k]])
Parameter(code, typed) == <<code>> \o typed
ResponseBytes(operation_code, return_code, debug, parameters) ==
    <<operation_code, return_code % 256, return_code \div 256>> \o debug
        \o <<Len(parameters)>> \o Flatten(parameters)

\* the names and addresses of the get-regions responses: the bytes of "us",
\* "eu", "a" and "b"
RegionLists ==
    { <<<< <<117, 115>>, <<101, 117>> >>, << <<97>>, <<98>> >>>>,
      <<<< <<101, 117>>, <<117, 115>> >>, << <<97>>, <<98>> >>>>,
      <<<< <<117, 115>>, <<101, 117>> >>, << <<97>> >>>>,
      <<<< <<101, 117>>, <<117, 115>> >>, << <<98>> >>>>,
      <<<< <<117, 115>> >>, << <<97>>, <<98>> >>>>,
      <<<< <<101, 117>> >>, << <<97>> >>>>,
      <<<< >>, << >>>> }
RegionsResponse(names, addresses) ==
    ResponseBytes(GET_REGIONS, 0, <<GpType_Null>>,
        << Parameter(REGION, StringArrayBytes(names)),
           Parameter(ADDRESS, StringArrayBytes(addresses)) >>)

\* the payloads of the binary messages the name server sends
RelayBodies ==
    {RegionsResponse(l[1], l[2]) : l \in RegionLists} \cup
    { <<>>, <<GET_REGIONS>>,
      ResponseBytes(GET_REGIONS, 32767, <<GpType_String, 2, 110, 111>>, <<>>),
      ResponseBytes(GET_REGIONS, 0, <<GpType_Null>>,
          << Parameter(REGION, StringArrayBytes(<< <<117, 115>> >>)) >>),
      ResponseBytes(GET_REGIONS, 0, <<GpType_Null>>,
          << Parameter(REGION, <<GpType_String, 2, 117, 115>>),
             Parameter(ADDRESS, StringArrayBytes(<< <<97>> >>)) >>),
      ResponseBytes(GET_REGIONS, 0, <<200>>, <<>>),
      ResponseBytes(PING, 0, <<GpType_Null>>,
          << Parameter(1, <<GpType_Int1, 5>>), Parameter(2, <<GpType_Int1, 9>>) >>),
      ResponseBytes(APPLICATION_ID, 0, <<GpType_Null>>, <<>>) }

\* the first two bytes of those messages: the two magic bytes and others,
\* every kind the dispatcher knows and others, with the encryption bit and
\* without
RelayFirsts == {243, 253, 0, 2, 242}
RelayKinds == {0, 1, 2, 3, 4, 5, 6, 7, 8, 127}
RelaySeconds == RelayKinds \cup {k + 128 : k \in RelayKinds}

Binary(data) == [type |-> "Binary", data |-> data]
CloseMessage == [type |-> "Close", data |-> <<>>]
TextMessage == [type |-> "Text", data |-> <<>>]
\* the payloads that come with every such pair of bytes; all the payloads
\* come as operation responses and as internal operation responses
HeaderBodies ==
    {<<>>, RegionsResponse(<< <<117, 115>>, <<101, 117>> >>, << <<97>>, <<98>> >>)}
RelayMessages ==
    {Binary(<<first, second>> \o body) :
        first \in RelayFirsts, second \in RelaySeconds, body \in HeaderBodies}
    \cup {Binary(<<243, second>> \o body) :
             second \in {EgMessageType_OperationResponse,
                         EgMessageType_InternalOperationResponse},
             body \in RelayBodies}
    \cup {Binary(<<>>), Binary(<<243>>), Binary(<<0>>), CloseMessage, TextMessage}

\* how many messages the loop takes and how far the clock goes
MaxInbound == 2
MaxRelayClock == 300
RelayClockStep == 300

RelayInit ==
    /\ overflow_checks = FALSE
    /\ WindowIdle
    /\ NodeIdle
    /\ CoordIdle
    /\ CodecIdle
    /\ photon = [r_received |-> 0, r_last |-> <<>>, r_sent |-> <<>>,
                 r_clock |-> 0, r_pc |-> "running"]

\* time passes between two messages
RelayTick ==
    /\ r_pc = "running"
    /\ r_clock + RelayClockStep <= MaxRelayClock
    /\ photon' = [photon EXCEPT !.r_clock = r_clock + RelayClockStep]
    /\ UNCHANGED photonRest

\* the loop takes a binary message: its bytes are written to a fresh stream,
\* which is rewound and handed to the dispatcher; every frame the dispatcher
\* sends goes out (the connection takes it)
RelayBinary ==
    /\ r_pc = "running"
    /\ r_received < MaxInbound
    /\ \E message \in RelayMessages :
          /\ message.type = "Binary"
          /\ \E handled \in {deserialize_message_and_callback(message.data, r_clock)} :
                photon' = [photon EXCEPT
                    !.r_received = r_received + 1,
                    !.r_last = [message |-> message, handled |-> handled],
                    !.r_sent = r_sent \o handled.sent,
                    !.r_pc = IF handled.outcome = "panic" THEN "panicked"
                             ELSE "running"]
    /\ UNCHANGED photonRest

\* the loop takes a Close message and ends
RelayClose ==
    /\ r_pc = "running"
    /\ r_received < MaxInbound
    /\ photon' = [photon EXCEPT
          !.r_received = r_received + 1,
          !.r_last = [message |-> CloseMessage, handled |-> Returns("closed", FALSE)],
          !.r_pc = "disconnected"]
    /\ UNCHANGED photonRest

\* the loop takes a message that is neither and prints it
RelayOther ==
    /\ r_pc = "running"
    /\ r_received < MaxInbound
    /\ photon' = [photon EXCEPT
          !.r_received = r_received + 1,
          !.r_last = [message |-> TextMessage, handled |-> Returns("printed", FALSE)]]
    /\ UNCHANGED photonRest

RelayNext == RelayTick \/ RelayBinary \/ RelayClose \/ RelayOther

RelaySpec == RelayInit /\ [][RelayNext]_vars

----------------------------------------------------------------------------
(* Properties of the receive loop *)

\* the loop has just taken a binary message with both header bytes, the
\* first of them a magic byte
OperationFrame(last) ==
    /\ last # <<>>
    /\ last.message.type = "Binary"
    /\ Len(last.message.data) >= 2
    /\ last.message.data[1] \in {243, 253}
Kind(last) == last.message.data[2] % 128
EncryptionBit(last) == last.message.data[2] >= 128

C25_FailsClosedOnEncryption ==
    OperationFrame(r_last) =>
        IF Kind(r_last) # 1 /\ EncryptionBit(r_last)
        THEN /\ r_last.handled.outcome = "panic"
             /\ r_last.handled.why = "Decryption not implemented."
             /\ ~r_last.handled.decoding
             /\ r_last.handled.sent = <<>>
             /\ r_pc = "panicked"
        ELSE /\ r_last.handled.why # "Decryption not implemented."
             /\ Kind(r_last) = 1 => r_last.handled.outcome = "init"

\* an encrypted operation response that carries a well-formed payload was
\* refused
C25_Witness ==
    /\ OperationFrame(r_last)
    /\ Kind(r_last) = 3
    /\ EncryptionBit(r_last)
    /\ Len(r_last.message.data) > 2
    /\ r_pc = "panicked"

\* C26: a frame whose first byte is neither 0xF3 nor 0xFD is dropped: nothing
\* is sent and the loop goes on.  A frame that starts with one of the two is
\* dispatched by its kind: 1, 3, 5 and 7 each have their handler, and every
\* other kind is fatal (the unknown-kind panic, unless the encryption bit had
\* already made the frame fatal).
C26_DispatchTotalAndExclusive ==
    /\ (/\ r_last # <<>>
        /\ r_last.message.type = "Binary"
        /\ Len(r_last.message.data) >= 1
        /\ r_last.message.data[1] \notin {243, 253}) =>
            /\ r_last.handled = Returns("discarded", FALSE)
            /\ r_pc = "running"
    /\ (OperationFrame(r_last) /\ ~(Kind(r_last) # 1 /\ EncryptionBit(r_last))) =>
            /\ Kind(r_last) = 1 <=> r_last.handled.outcome = "init"
            /\ Kind(r_last) = 5 <=> r_last.handled.outcome = "disconnect"
            /\ Kind(r_last) \in {3, 7} <=> r_last.handled.decoding
            /\ Kind(r_last) \notin {1, 3, 5, 7} <=>
                  r_last.handled.why = "Unknown operation response type"
    /\ (OperationFrame(r_last) /\ Kind(r_last) \notin {1, 3, 5, 7}) =>
            /\ r_last.handled.outcome = "panic"
            /\ r_pc = "panicked"

\* a frame that starts with 0xFD and has the unknown kind 4 was fatal
C26_Witness ==
    /\ OperationFrame(r_last)
    /\ r_last.message.data[1] = 253
    /\ Kind(r_last) = 4
    /\ r_last.handled.why = "Unknown operation response type"

\* C30: a successful get-regions response with names at key 210 and addresses
\* at key 230 is accepted when the two arrays have the same length and fails,
\* starting nothing, when they do not.
C30_RegionListPairsNamesWithAddresses ==
    \A l \in RegionLists :
        (/\ r_last # <<>>
         /\ r_last.message = Binary(<<243, EgMessageType_OperationResponse>>
                                        \o RegionsResponse(l[1], l[2]))) =>
            IF Len(l[1]) = Len(l[2])
            THEN r_last.handled.outcome # "panic"
            ELSE r_last.handled.outcome = "panic" /\ r_last.handled.pinger = None

----------------------------------------------------------------------------
(* BufferSpec: StreamBuffer (photon stream_buffer.rs) *)

Zeros(n) == [k \in 1..n |-> 0]

\* StreamBuffer::with_capacity: the length is the capacity
with_capacity(capacity) == [len |-> capacity, buf |-> Zeros(capacity), pos |-> 0]

\* a check_size that grows the buffer to the required size and no further
check_size_exact(buf, required_size) ==
    IF required_size <= Len(buf) THEN buf
    ELSE buf \o Zeros(required_size - Len(buf))

\* check_size: the buffer after it, grown to twice its size or to the
\* required size, whichever is larger, when it is too small
check_size(buf, required_size) ==
    IF required_size <= Len(buf) THEN buf
    ELSE buf \o Zeros(Max2(Len(buf) * 2, required_size) - Len(buf))

\* ensure_capacity(additional)
ensure_capacity(self, additional) ==
    [self EXCEPT !.buf = check_size(self.buf, self.pos + additional)]

\* StreamBuffer::write(data); write_byte(byte) is write of the one byte
StreamWrite(self, data) ==
    LET grown == ensure_capacity(self, Len(data))
    IN  [len |-> Max2(self.len, self.pos + Len(data)),
         buf |-> [k \in 1..Len(grown.buf) |->
                    IF k > self.pos /\ k <= self.pos + Len(data)
                    THEN data[k - self.pos] ELSE grown.buf[k]],
         pos |-> self.pos + Len(data)]

\* remaining()
remaining(self) == IF self.len >= self.pos THEN self.len - self.pos ELSE 0

\* a call on the buffer: its arguments, remaining() before it, whether it
\* returned, and the bytes it returned
Call(op, count, self, ok, data) ==
    [op |-> op, count |-> count, remaining |-> remaining(self), ok |-> ok,
     data |-> data]

\* the sizes, the bytes and the number of calls
MaxCapacity == 3
MaxWrite == 2
MaxCount == 3
MaxCalls == 4
MaxBeyond == 2
\* the bytes handed to the writes are, one after the other, the bytes of one
\* source whose bytes all differ and none of which is the fill byte 0
SourceByte(k) == ((k * 37) % 251) + 1
NextData(written, n) == [i \in 1..n |-> SourceByte(written + i)]

BufferInit ==
    /\ overflow_checks \in BOOLEAN
    /\ WindowIdle
    /\ NodeIdle
    /\ CoordIdle
    /\ CodecIdle
    /\ \E capacity \in 0..MaxCapacity :
          photon = [sb |-> with_capacity(capacity),
                    sb_log |-> [bytes |-> <<>>, writing |-> TRUE, written |-> 0,
                                calls |-> 0],
                    sb_out |-> Call("with_capacity", capacity,
                                   with_capacity(capacity), TRUE, <<>>)]

\* the buffer, the log and the call after a call
Called(self, log, out) == photon' = [sb |-> self, sb_log |-> log, sb_out |-> out]

\* a call can be made: the last one returned, and the bound is not reached
CanCall == sb_out.ok /\ sb_log.calls < MaxCalls

\* the log after a call: the bytes written from position 0 on are logged
\* until the first call that is no write; a write after that ends the log
Logged(data, isWrite) ==
    [bytes |-> IF isWrite /\ sb_log.writing THEN sb_log.bytes \o data
               ELSE IF isWrite THEN <<>> ELSE sb_log.bytes,
     writing |-> sb_log.writing /\ isWrite,
     written |-> sb_log.written + Len(data),
     calls |-> sb_log.calls + 1]

SbWrite ==
    /\ CanCall
    /\ \E data \in {NextData(sb_log.written, n) : n \in 0..MaxWrite} :
          Called(StreamWrite(sb, data), Logged(data, TRUE),
                 Call("write", Len(data), sb, TRUE, <<>>))
    /\ UNCHANGED photonRest

SbWriteByte ==
    /\ CanCall
    /\ \E byte \in {SourceByte(sb_log.written + 1)} :
          Called(StreamWrite(sb, <<byte>>), Logged(<<byte>>, TRUE),
                 Call("write_byte", 1, sb, TRUE, <<>>))
    /\ UNCHANGED photonRest

\* read_byte: panics when no byte is left
SbReadByte ==
    /\ CanCall
    /\ IF sb.pos >= sb.len
       THEN Called(sb, Logged(<<>>, FALSE), Call("read_byte", 1, sb, FALSE, <<>>))
       ELSE Called([sb EXCEPT !.pos = sb.pos + 1], Logged(<<>>, FALSE),
                   Call("read_byte", 1, sb, TRUE, <<sb.buf[sb.pos + 1]>>))
    /\ UNCHANGED photonRest

\* read(count): as many bytes as are left, at most count.  self.len -
\* self.pos is a subtraction of usize: with the position past the length it
\* panics where overflows are checked and wraps where they are not, to a
\* value larger than any count, and then the bytes are taken from the
\* position on, which panics at the first index past the capacity
SbRead ==
    /\ CanCall
    /\ \E count \in 0..MaxCount :
          IF sb.pos > sb.len /\ overflow_checks
          THEN Called(sb, Logged(<<>>, FALSE), Call("read", count, sb, FALSE, <<>>))
          ELSE LET available == IF sb.pos > sb.len \/ count < sb.len - sb.pos
                                THEN count ELSE sb.len - sb.pos
               IN  IF available > 0 /\ sb.pos + available > Len(sb.buf)
                   THEN Called(sb, Logged(<<>>, FALSE),
                               Call("read", count, sb, FALSE, <<>>))
                   ELSE Called([sb EXCEPT !.pos = sb.pos + available],
                               Logged(<<>>, FALSE),
                               Call("read", count, sb, TRUE,
                                    SubSeq(sb.buf, sb.pos + 1, sb.pos + available)))
    /\ UNCHANGED photonRest

SbResetPosition ==
    /\ CanCall
    /\ Called([sb EXCEPT !.pos = 0], Logged(<<>>, FALSE),
              Call("reset_position", 0, sb, TRUE, <<>>))
    /\ UNCHANGED photonRest

\* seek(position): any position, inside the buffer or up to MaxBeyond past
\* its length
SbSeek ==
    /\ CanCall
    /\ \E position \in 0..(sb.len + MaxBeyond) :
          Called([sb EXCEPT !.pos = position], Logged(<<>>, FALSE),
                 Call("seek", position, sb, TRUE, <<>>))
    /\ UNCHANGED photonRest

BufferNext ==
    SbWrite \/ SbWriteByte \/ SbReadByte \/ SbRead \/ SbResetPosition \/ SbSeek

BufferSpec == BufferInit /\ [][BufferNext]_vars

\* C27: read_byte with no byte left, and read(n) with fewer than n bytes
\* left, fail and return no data; a write always succeeds.
C27_ReadsFailPastTheEnd ==
    /\ (sb_out.op = "read_byte" /\ sb_out.remaining = 0) =>
          ~sb_out.ok /\ sb_out.data = <<>>
    /\ (sb_out.op = "read" /\ sb_out.remaining < sb_out.count) =>
          ~sb_out.ok /\ sb_out.data = <<>>
    /\ sb_out.op \in {"write", "write_byte"} => sb_out.ok

\* the part of it that read_byte and the writes do have
C27_ReadByteFailsPastTheEnd ==
    /\ (sb_out.op = "read_byte" /\ sb_out.remaining = 0) =>
          ~sb_out.ok /\ sb_out.data = <<>>
    /\ sb_out.op \in {"write", "write_byte"} => sb_out.ok

\* C28: after bytes b are written from position 0 into a buffer of any
\* initial capacity and the position is reset, read(n) with n <= |b| returns
\* the first n bytes of b; a write that needs more than the capacity makes the
\* capacity the larger of twice the old one and what is needed, and changes
\* no byte outside the range it writes.
C28_WriteThenReadAndGrowth ==
    [][/\ (/\ sb_out'.op = "read"
           /\ sb_out.op = "reset_position"
           /\ sb_log.bytes # <<>>
           /\ sb_out'.count <= Len(sb_log.bytes)) =>
              sb_out'.data = SubSeq(sb_log.bytes, 1, sb_out'.count)
       /\ \A k \in 1..Len(sb.buf) :
              (sb_out'.op \in {"write", "write_byte"}
                  /\ (k <= sb.pos \/ k > sb.pos + sb_out'.count)) =>
                      sb'.buf[k] = sb.buf[k]
       /\ (sb_out'.op \in {"write", "write_byte"}
              /\ sb.pos + sb_out'.count > Len(sb.buf)) =>
              Len(sb'.buf) = IF 2 * Len(sb.buf) > sb.pos + sb_out'.count
                             THEN 2 * Len(sb.buf) ELSE sb.pos + sb_out'.count]_vars

\* two bytes written to a buffer made with capacity 1, which grew to 2, were
\* read back after a reset
C28_Witness ==
    /\ sb_out.op = "read"
    /\ sb_out.count = 2
    /\ sb_out.data = sb_log.bytes
    /\ sb_out.data = NextData(0, 2)
    /\ sb_log.calls = 3
    /\ Len(sb.buf) = 2

----------------------------------------------------------------------------
(* PingerSpec: Pinger::start_ping (photon pinger.rs) *)

\* sample_size, the ids that gen_random_cur_id draws and the milliseconds a
\* probe takes
MaxProbes == 4
PingIds == {0, 254}
PingMillis == {1, 4, 9}

RECURSIVE Sum(_)
\* samples.iter().sum()
Sum(samples) == IF samples = <<>> THEN 0 ELSE Head(samples) + Sum(Tail(samples))

PingerInit ==
    /\ overflow_checks = FALSE
    /\ WindowIdle
    /\ NodeIdle
    /\ CoordIdle
    /\ CodecIdle
    /\ \E script \in [sample_size : 0..MaxProbes] :
          photon = [pg_script |-> script, pg_samples |-> <<>>, pg_pc |-> "idle",
                    pg_result |-> <<>>]

\* start_ping(sample_size) is called: the socket is bound and connected
PgStart ==
    /\ pg_pc = "idle"
    /\ photon' = [photon EXCEPT !.pg_pc = "probing"]
    /\ UNCHANGED photonRest

\* ping(id, socket) of a pass of the loop: the datagram with the id in its
\* last byte is sent, a datagram is received; its last byte is the id and the
\* elapsed milliseconds are pushed, or it is not and ping panics
PgPing ==
    /\ pg_pc = "probing"
    /\ Len(pg_samples) < pg_script.sample_size
    /\ \E id \in PingIds, reply \in PingIds, millis \in PingMillis :
          IF id # reply
          THEN photon' = [photon EXCEPT !.pg_pc = "panicked",
                                        !.pg_result = <<"cur_id mismatch">>]
          ELSE photon' = [photon EXCEPT !.pg_samples = Append(pg_samples, millis)]
    /\ UNCHANGED photonRest

\* after the loop: samples.iter().sum() / sample_size
PgAverage ==
    /\ pg_pc = "probing"
    /\ Len(pg_samples) = pg_script.sample_size
    /\ IF pg_script.sample_size = 0
       THEN photon' = [photon EXCEPT !.pg_pc = "panicked",
                                     !.pg_result = <<"attempt to divide by zero">>]
       ELSE photon' = [photon EXCEPT
                !.pg_pc = "done",
                !.pg_result = <<Sum(pg_samples) \div pg_script.sample_size>>]
    /\ UNCHANGED photonRest

PingerNext == PgStart \/ PgPing \/ PgAverage

PingerSpec == PingerInit /\ [][PingerNext]_vars

\* C29: start_ping(n) runs its n probes whatever their replies and returns
\* the mean of the samples of the probes whose reply carried their id, or 0
\* when n is 0 or there is no such sample.
C29_MeanOfSuccessfulSamples ==
    pg_pc \notin {"idle", "probing"} =>
        /\ pg_pc = "done"
        /\ pg_result = <<IF pg_samples = <<>> THEN 0
                         ELSE Sum(pg_samples) \div Len(pg_samples)>>

\* what start_ping does return when every reply carries its id and n is not 0
C29_MeanWhenAllRepliesMatch ==
    pg_pc = "done" =>
        /\ Len(pg_samples) = pg_script.sample_size
        /\ pg_script.sample_size > 0
        /\ pg_result = <<Sum(pg_samples) \div Len(pg_samples)>>

----------------------------------------------------------------------------
(* Properties of the coordinator: the two kinds of mutex *)

\* thread t holds the mutex of some participant's record
HoldsClient(t) == \E q \in Addrs : cliLock[q] = t

\* p's receive thread is inside send_message under a record's guard
InWrite(p) == pc[p] \in {"send", "send_close", "req_w", "play_w"}

\* the next statement of p's receive thread is clients.lock()
AtRegistryLock(p) ==
    \/ pc[p] \in {"remove", "close_rm", "compute", "play_start"}
    \/ /\ pc[p] = "wait"
       /\ LoopCondition(bc[p].all_clients_responded, clock - bc[p].start_time)

\* C31: no thread takes the registry mutex while it holds a participant's
\* mutex, and a thread that holds both took the registry first.  A record's
\* mutex is held only inside a send_message by its heartbeat thread, or by a
\* receive thread that is in send_message too: with the registry in its
\* loops over the registry and without it otherwise; that call returns without
\* asking for any lock, so no thread waits for a lock in a cycle.
C31_RegistryBeforeParticipant ==
    /\ [](\A p, q \in Addrs :
            /\ cliLock[q] = RecvThread(p) =>
                  /\ InWrite(p)
                  /\ r_out[p].to = q
                  /\ (pc[p] \in {"req_w", "play_w"}) = (regLock = RecvThread(p))
                  /\ ENABLED (SendEnd(p) \/ ReqEnd(p) \/ PlayEnd(p))
            /\ cliLock[q] = PingThread(p) =>
                  /\ q = p
                  /\ hb[p] = "write"
                  /\ regLock # PingThread(p)
                  /\ ENABLED HbEnd(p)
            /\ AtRegistryLock(p) => ~HoldsClient(RecvThread(p)))
    /\ [][\A p, q \in Addrs :
            /\ (regLock' = RecvThread(p) /\ regLock # RecvThread(p))
                  => ~HoldsClient(RecvThread(p))
            /\ (cliLock'[q] = RecvThread(p) /\ cliLock[q] # RecvThread(p)
                    /\ regLock' = RecvThread(p))
                  => regLock = RecvThread(p)]_vars

\* C31 witness: A's receive thread, in a loop over the registry, holds the
\* registry and B's record
C31_Witness ==
    /\ regLock = RecvThread("A")
    /\ cliLock["B"] = RecvThread("A")
    /\ pc["A"] \in {"req_w", "play_w"}

----------------------------------------------------------------------------
(* HeartbeatSpec: the heartbeat threads and the Pong arm of the coordinator *)
(* (server main.rs 260-293, 459-489).  Participant A is a node: it answers   *)
(* every Ping with a Pong of the same payload (client main.rs 151).          *)
(* Participant B is a peer that sends the Pongs of a script.                 *)

\* thread::sleep(Duration::from_secs(2)), in ms
HEARTBEAT_MS == 2000
\* the clock advances by at most this many heartbeat periods
MaxHbTicks == 2
\* at most this many of a node's Pongs are waiting to be read
MaxQueued == 2

EchoingNodes == {"A"}

\* a Pong whose first 16 bytes encode a time later than the coordinator's clock
FuturePong == Frame("Pong", <<>>, PingPayload(CoordStartClock + 5, 0))
ShortPong == Frame("Pong", <<>>, <<1, 2>>)
LongPong == Frame("Pong", <<>>, PingPayload(CoordStartClock, 0) \o <<0>>)
ScriptedPongs == {<<ShortPong>>, <<FuturePong>>, <<ShortPong, FuturePong>>, <<LongPong>>}

HeartbeatInit ==
    /\ overflow_checks \in BOOLEAN
    /\ CodecIdle
    /\ PhotonIdle
    /\ WindowIdle
    /\ NodeIdle
    /\ CoordQuiet
    /\ \E script \in ScriptedPongs :
          inbox = [p \in Addrs |-> IF p \in EchoingNodes THEN <<>> ELSE script]

\* two seconds pass: the heartbeat threads that were sleeping are due
HbTick ==
    /\ clock + HEARTBEAT_MS <= CoordStartClock + MaxHbTicks * HEARTBEAT_MS
    /\ clock' = clock + HEARTBEAT_MS
    /\ hb' = [p \in Addrs |-> IF hb[p] = "sleep" THEN "due" ELSE hb[p]]
    /\ UNCHANGED <<otherVars, netVars, registry, recVars, lockVars, pc, r_out, h_out, bc>>

\* thread::sleep has returned: the next Ping is sent
HbWake(p) ==
    /\ hb[p] = "due"
    /\ p \in EchoingNodes => Len(inbox[p]) < MaxQueued
    /\ HbSend(p)

\* send_message returns; a node that got the Ping answers with its payload
HbEndEchoed(p) ==
    /\ HbReturn(p)
    /\ inbox' = IF SendOk(p) /\ p \in EchoingNodes
                THEN [inbox EXCEPT ![p] = Append(@, Frame("Pong", <<>>, h_out[p].data))]
                ELSE inbox
    /\ UNCHANGED <<otherVars, clock, conn, registry, recVars, regLock, pc, r_out, bc>>

HeartbeatNext ==
    \/ HbTick
    \/ \E p \in Addrs :
          \/ Accept(p) \/ HbWake(p) \/ HbEndEchoed(p)
          \/ RecvIoError(p) \/ RecvRetry(p) \/ OnPong(p)

HeartbeatSpec == HeartbeatInit /\ [][HeartbeatNext]_vars

\* p's receive thread takes a Pong with n bytes of payload in this step
TakesPong(p) ==
    /\ pc[p] = "loop"
    /\ inbox[p] # <<>>
    /\ Head(inbox[p]).type = "Pong"
    /\ inbox'[p] = Tail(inbox[p])

\* the time in the first 16 bytes of the Pong at the head of p's inbox
SentMs(p) == from_be_bytes(SubSeq(Head(inbox[p]).data, 1, 16))

\* the heartbeat thread of p enters send_message in this step with a Ping of
\* be_u128(now) || be_u128(smoothed_ping or 0)
PingIsClockAndRtt(p) ==
    (hb[p] # "write" /\ hb'[p] = "write") =>
        /\ h_out'[p].type = "Ping"
        /\ Len(h_out'[p].data) = 32
        /\ from_be_bytes(SubSeq(h_out'[p].data, 1, 16)) = clock
        /\ IF smoothed_ping[p] = None
           THEN from_be_bytes(SubSeq(h_out'[p].data, 17, 32)) = 0
           ELSE SubSeq(h_out'[p].data, 17, 32) = to_be_bytes(smoothed_ping[p][1])

\* exactly one sample (now, now - sent_ms) is appended to p's history, and
\* only p's record changes
SampleAppended(p) ==
    /\ ping_history'[p] =
          Append(ping_history[p], [timestamp |-> clock, latency |-> clock - SentMs(p)])
    /\ \A q \in Addrs \ {p} :
          ping_history'[q] = ping_history[q] /\ smoothed_ping'[q] = smoothed_ping[q]
    /\ UNCHANGED <<photon_pings, waiting_for_photon_pings>>

\* C32: as the claim states it: every heartbeat Ping carries the clock and
\* the smoothed RTT (0 when undefined), every Pong with 32 bytes appends
\* exactly one sample (now, now - sent_ms) to the sender's history, and a
\* Pong of another length changes no participant state.
C32_PingAndSample ==
    [][\A p \in Addrs :
        /\ PingIsClockAndRtt(p)
        /\ TakesPong(p) =>
              IF Len(Head(inbox[p]).data) = 32 THEN SampleAppended(p)
              ELSE UNCHANGED recVars]_vars

\* what holds of the code: the same, except that the handler of a Pong whose
\* sent_ms is later than now, built with overflow checks, panics and appends
\* nothing
C32_PingAndSampleUnlessUnderflow ==
    [][\A p \in Addrs :
        /\ PingIsClockAndRtt(p)
        /\ TakesPong(p) =>
              IF Len(Head(inbox[p]).data) # 32 THEN UNCHANGED recVars
              ELSE IF overflow_checks /\ SentMs(p) > clock
              THEN pc'[p] = "panicked" /\ UNCHANGED recVars
              ELSE SampleAppended(p)]_vars

\* C33: as the claim states it: every history is strictly increasing in
\* observed_at from front to back.
C33_HistoryStrictlyIncreasing ==
    \A p \in Addrs : \A i, j \in DOMAIN ping_history[p] :
        i < j => ping_history[p][i].timestamp < ping_history[p][j].timestamp

\* what holds of the code while the clock does not go back: no later sample
\* has an earlier observed_at; two samples may have the same
C33_HistoryNonDecreasing ==
    \A p \in Addrs : \A i, j \in DOMAIN ping_history[p] :
        i < j => ping_history[p][i].timestamp <= ping_history[p][j].timestamp

\* C38: as the claim states it: whatever a 32-byte Pong carries, the receive
\* thread keeps running and no sample's latency is larger than the time it
\* was observed at (a wrapped difference is written as a negative number).
C38_PongNeverUnderflows ==
    \A p \in Addrs :
        /\ pc[p] # "panicked"
        /\ \A i \in DOMAIN ping_history[p] :
              /\ ping_history[p][i].latency >= 0
              /\ ping_history[p][i].latency <= ping_history[p][i].timestamp

\* what holds of the code: with overflow checks the thread of a peer whose
\* Pong is stamped later than now has panicked, its record still in the
\* registry; without them the difference modulo 2^128 is in the history
C38_UnderflowPanicsOrWraps ==
    \A p \in Addrs :
        /\ pc[p] = "panicked" => overflow_checks /\ p \in registry
        /\ \A i \in DOMAIN ping_history[p] :
              ping_history[p][i].latency < 0 =>
                  /\ ~overflow_checks
                  /\ ping_history[p][i].latency
                        = ping_history[p][i].timestamp - (CoordStartClock + 5)

----------------------------------------------------------------------------
(* Properties of the serialized operation request *)

\* the bytes of the operation request inside the frame: all after the header
Request == SubSeq(f_frame[1], Len(MESSAGE_HEADER) + 1, Len(f_frame[1]))

\* the entries of the table, each once, as key, type code and encoded value,
\* in one of the orders the map yields them
EntriesOnce(bytes, table) ==
    \E param_dict \in Iterations(table) :
        bytes = Flatten([i \in DOMAIN param_dict |->
                    <<param_dict[i].code>> \o write(param_dict[i].value, TRUE)])

\* C34: as the claim states it: the request is the opcode, a count byte
\* equal to the number of entries of the map, then each entry once as (key,
\* type code, encoded value); for the empty map one zero byte follows the
\* opcode.
C34_CountByteIsEntryCount ==
    f_frame # None =>
        /\ Request[1] = f_input.opcode
        /\ Request[2] = Cardinality(f_input.table)
        /\ EntriesOnce(SubSeq(Request, 3, Len(Request)), f_input.table)
        /\ f_input.table = {} => Request = <<f_input.opcode, 0>>

\* what holds of the code: the count byte is the number of entries modulo
\* 256, and when that is 0 nothing follows it: the map of 256 entries is
\* written like the empty one
C34_CountByteIsEntryCountMod256 ==
    f_frame # None =>
        /\ Request[1] = f_input.opcode
        /\ Request[2] = Cardinality(f_input.table) % U8_KEYS
        /\ IF Request[2] = 0 THEN Len(Request) = 2
           ELSE EntriesOnce(SubSeq(Request, 3, Len(Request)), f_input.table)

(***************************************************************************)
(* Properties of the codec: decoding an operation response                 *)
(***************************************************************************)
\* the deserializer has been called on the stream of a response
ResponseRead == c_input.kind = "Response" /\ c_pc \in {"read", "panicked"}
\* the typed debug message of the stream: it starts after the opcode and the
\* two bytes of the return code
DebugAt == 4
DebugLength == read_compressed_uint32(c_stream, DebugAt + 1)
\* where the count byte of the payload stands
CountAt ==
    IF c_stream[DebugAt] = GpType_String
    THEN DebugLength.position + U32AsUsize(DebugLength.value)
    ELSE DebugAt + 1

ReadReturnedAvailable ==
    sb_out.op = "read" =>
        /\ sb_out.ok
        /\ Len(sb_out.data) =
               IF sb_out.count < sb_out.remaining THEN sb_out.count
               ELSE sb_out.remaining

\* C40: after any sequence of write_byte, write, read_byte, read, seek and
\* reset_position, position <= length <= capacity, remaining() is length -
\* position, and read(n) returns min(n, remaining()) bytes without an
\* arithmetic underflow, also after a seek past the length.
C40_PositionWithinLength ==
    /\ sb.pos <= sb.len
    /\ sb.len <= Len(sb.buf)
    /\ remaining(sb) = sb.len - sb.pos
    /\ ReadReturnedAvailable

\* what holds of it: the length never exceeds the capacity; a call made
\* with the position within the length leaves it there unless it is a seek,
\* and a read made there returns min(n, remaining()) bytes; with the
\* position past the length remaining() is 0, read_byte panics, and read(n)
\* panics or returns n bytes from past the length
C40_PositionWithinLengthUnlessSought ==
    [][/\ sb'.len <= Len(sb'.buf)
       /\ (sb.pos <= sb.len /\ sb_out'.op # "seek") =>
              /\ sb'.pos <= sb'.len
              /\ remaining(sb') = sb'.len - sb'.pos
              /\ ReadReturnedAvailable'
       /\ sb.pos > sb.len =>
              /\ remaining(sb) = 0
              /\ sb_out'.op = "read_byte" => ~sb_out'.ok
              /\ (sb_out'.op = "read" /\ sb_out'.ok) =>
                     /\ ~overflow_checks
                     /\ Len(sb_out'.data) = sb_out'.count]_vars

----------------------------------------------------------------------------
(***************************************************************************)
(* NodeLoopSpec: the node's one loop over Pings and texts (client main.rs  *)
(* 129-212).  n_pings holds the heartbeat Pings that have reached the      *)
(* node's socket, in order; the loop has read, and answered, the first     *)
(* Len(n_pongs) of them.  A text is taken when no Ping stands before it.   *)
(***************************************************************************)
NodeLoopInit == NodeTextInit

\* the Pings that have reached the node and that the loop has not read
Unread == Len(n_pings) - Len(n_pongs)

\* the coordinator's heartbeat thread writes a Ping stamped with its clock,
\* which here is the node's, and the Ping reaches the node's socket
PingArrives ==
    /\ n_state = "running"
    /\ Len(n_pings) < MaxNodePings
    /\ \E cur_ping \in AdvertisedRtts :
          n_pings' = Append(n_pings, PingPayload(n_clock, cur_ping))
    /\ UNCHANGED <<overflow_checks, codecVars, photonVars, winVars, coordVars,
                   n_clock, n_state, n_pongs, nodeTextVars>>

\* the loop takes the next message, a Ping, when the main thread is not in
\* the sleep of the PLAY arm (main.rs 132-152)
NodeLoopOnPing ==
    /\ n_state = "running"
    /\ n_sleep = None
    /\ Unread > 0
    /\ LET ping == n_pings[Len(n_pongs) + 1]
       IN  IF /\ Len(ping) = 32
              /\ SubOverflows(n_clock, from_be_bytes(SubSeq(ping, 1, 16)))
              /\ overflow_checks
           THEN /\ n_state' = "panicked"
                /\ n_pongs' = n_pongs
           ELSE /\ n_state' = n_state
                /\ n_pongs' = Append(n_pongs, ping)
    /\ UNCHANGED <<overflow_checks, codecVars, photonVars, winVars, coordVars,
                   n_clock, n_pings, nodeTextVars>>

\* the loop takes the next message, a text
NodeLoopOnPlay == Unread = 0 /\ NodeOnPlay
NodeLoopOnRequestPing == Unread = 0 /\ NodeOnRequestPing
NodeLoopOnOtherText == Unread = 0 /\ NodeOnOtherText

NodeLoopNext ==
    \/ NodeTick \/ PingArrives \/ NodeLoopOnPing \/ NodeLoopOnPlay \/ NodeWake
    \/ NodeLoopOnRequestPing \/ NodeLoopOnOtherText

NodeLoopSpec == NodeLoopInit /\ [][NodeLoopNext]_vars

\* when the Ping of a payload was stamped, which is when it reached the node
ArrivedAt(ping) == from_be_bytes(SubSeq(ping, 1, 16))

\* C39: a heartbeat Ping that reaches the node while the node waits for the
\* target time of a PLAY is answered with its Pong before the wait ends: when
\* the wait ends, every Ping that arrived before that moment has its Pong.
C39_PingAnsweredDuringWait ==
    [][(n_sleep # None /\ n_sleep' = None) =>
          \A k \in 1..Len(n_pings) :
              ArrivedAt(n_pings[k]) < n_clock => k <= Len(n_pongs)]_vars

\* what holds instead: no Pong is sent while the node waits.  The Pings that
\* arrive during the wait are still unread when it ends, and each Pong is
\* sent no earlier than the end of the wait.
C39_NoPongDuringWait ==
    [][/\ n_sleep # None => n_pongs' = n_pongs
       /\ (n_sleep # None /\ n_sleep' = None) =>
              \A k \in 1..Len(n_pings) :
                  ArrivedAt(n_pings[k]) > n_sleep[1].received_at => k > Len(n_pongs)]_vars

----------------------------------------------------------------------------
(***************************************************************************)
(* ReplySpec: the coordinator with nodes that answer.  Every node has both *)
(* regions in its cache and answers a REQUEST_PING at once, as its loop    *)
(* does (client main.rs 193-205): the PHOTON_PINGS text for the region     *)
(* asked is in its connection's inbox when the coordinator's send_message  *)
(* returns.                                                                *)
(***************************************************************************)
\* get_ping_data_json of a cache that holds us: 50 and eu: 90
NodeReply(target_region) ==
    PhotonPingsFrame(IF target_region = <<>> THEN "[us:50,eu:90]"
                     ELSE IF target_region = <<Str("eu")>> THEN "[eu:90]"
                     ELSE IF target_region = <<Str("us")>> THEN "[us:50]"
                     ELSE "[]")

\* what the two nodes send of their own accord: one broadcast; a broadcast
\* and a REQUEST_PING for another region; two broadcasts for two regions
ReplyScenarios ==
    { [A |-> <<SendPlayFrame(<<Str("eu"), Colon, Str("demo")>>)>>, B |-> <<>>],
      [A |-> <<SendPlayFrame(<<Str("eu"), Colon, Str("demo")>>)>>,
       B |-> <<RequestPingFrame(<<Str("us")>>)>>],
      [A |-> <<SendPlayFrame(<<Str("eu"), Colon, Str("demo")>>)>>,
       B |-> <<SendPlayFrame(<<Str("us"), Colon, Str("other")>>)>>] }

ReplyInit ==
    /\ overflow_checks = FALSE
    /\ CodecIdle
    /\ PhotonIdle
    /\ WindowIdle
    /\ NodeIdle
    /\ CoordQuiet
    /\ inbox \in ReplyScenarios

\* send_message of a REQUEST_PING returns, and the node that got it has
\* answered
ReqEndAnswered(p) ==
    /\ ReqReturn(p)
    /\ inbox' = [inbox EXCEPT ![r_out[p].to] =
                    IF SendOk(r_out[p].to)
                    THEN Append(@, NodeReply(bc[p].target_region)) ELSE @]
    /\ UNCHANGED <<otherVars, clock, conn, registry, recVars, hb, h_out>>

ReplyNext ==
    \E p \in Addrs :
        \/ Accept(p) \/ RecvIoError(p) \/ RecvRetry(p)
        \/ OnSendPlay(p) \/ OnRequestPing(p) \/ ReqNext(p) \/ ReqEndAnswered(p)
        \/ OnPhotonPings(p) \/ SendEnd(p)
        \/ WaitPoll(p) \/ WaitSleep(p) \/ WaitExit(p)
        \/ Compute(p) \/ PlayStart(p) \/ PlayNext(p) \/ PlayEnd(p) \/ Confirm(p)

ReplySpec == ReplyInit /\ [][ReplyNext]_vars

\* a PHOTON_PINGS text of q's node that q's receive thread has not read
UnreadReply(q) ==
    \E i \in DOMAIN inbox[q] :
        inbox[q][i].type = "Text" /\ IsPhotonPings(inbox[q][i].text)

\* C36: when a participant that is in the registry issues SEND_PLAY and every
\* participant, the issuer included, answers its REQUEST_PING at once, the
\* coordinator processes all the replies during the wait: the wait ends with
\* every awaiting flag cleared, before the cap of 2000 ms.
C36_RepliesEndTheWait ==
    [][\A p \in Addrs :
          (WaitExit(p) /\ p \in registry) =>
              /\ \A q \in registry :
                    ~waiting_for_photon_pings[q] /\ ~UnreadReply(q)
              /\ bc[p].all_clients_responded
              /\ clock - bc[p].start_time < MAX_WAIT_MS]_vars

\* what holds instead: the issuer's receive thread is the thread that waits,
\* so the issuer's own reply stays unread and its flag set for the whole wait,
\* and the wait ends only when the cap has passed
C36_OwnReplyUnreadDuringWait ==
    [][\A p \in Addrs :
          WaitExit(p) =>
              /\ p \in registry
              /\ waiting_for_photon_pings[p]
              /\ UnreadReply(p)
              /\ ~bc[p].all_clients_responded
              /\ clock - bc[p].start_time >= MAX_WAIT_MS]_vars

\* the regions of the reply a node gives to a request for target_region
RepliedTo(target_region) ==
    from_str(trim_start_matches(NodeReply(target_region).text, PHOTON_PINGS_PREFIX)).regions

\* q's receive thread reads a reply that clears q's awaiting flag
FlagCleared(q) == waiting_for_photon_pings[q] /\ ~waiting_for_photon_pings'[q]

\* C37: when two requests for different regions overlap, a participant's
\* awaiting flag is cleared only by its reply to the request that set it, and
\* the region_pings a broadcast reads were received in reply to its own
\* request.  A node answers in the order it is asked, so the request that
\* set q's flag last is the one whose reply is the last in q's inbox.
C37_RepliesMatchRequests ==
    [][\A p \in Addrs :
          /\ FlagCleared(p) => Head(inbox[p]) = Last(inbox[p])
          /\ Compute(p) =>
                \A q \in registry :
                    photon_pings[q] # None =>
                        photon_pings[q][1] = RepliedTo(bc[p].target_region)]_vars

\* what holds instead: whichever reply of q the coordinator reads clears q's
\* flag and becomes q's region_pings, whatever request it answers
C37_AnyReplyClearsAndReplaces ==
    [][\A q \in Addrs :
          (pc[q] = "loop" /\ inbox'[q] # inbox[q] /\ Len(inbox'[q]) < Len(inbox[q])
              /\ IsPhotonPings(Head(inbox[q]).text)) =>
              /\ ~waiting_for_photon_pings'[q]
              /\ photon_pings'[q] =
                     Some(from_str(trim_start_matches(Head(inbox[q]).text,
                                                      PHOTON_PINGS_PREFIX)).regions)]_vars

====
